---- MODULE Spec2Model ----
(***************************************************************************)
(* Recurrent-network unrolling and truncated back-propagation of weakai's *)
(* rnn and seqtoseq packages.                                              *)
(*                                                                         *)
(* Index conventions: Go slices are 0-based, TLA+ sequences 1-based.  A    *)
(* lane l of the model is Go lane l-1, a batch position p of the model is  *)
(* Go position p-1, the model's Steps[k] is Go's Steps[k-1].  The loop     *)
(* counter t keeps Go's value (0 for the first timestep).                  *)
(***************************************************************************)
EXTENDS Integers, Sequences, FiniteSets, TLC

VARIABLES
    pc,              \* position of the unrolling / gradient call
    seqs,            \* BatchSeqs / BatchSeqsR argument: a batch of value sequences
    t,               \* loop counter t of BatchSeqs / BatchSeqsR
    res,             \* the BlockSeqFuncOutput / BlockSeqFuncROutput being built
    calls,           \* every BlockInput handed to Block.Batch / BatchR, in order
    upstream,        \* Gradient / RGradient argument
    upstreamR,       \* RGradient argument
    g,               \* autofunc.Gradient passed by the caller
    rg,              \* autofunc.RGradient passed by the caller
    g0,              \* the caller's g as it was when the call was made
    rg0,             \* the caller's rg as it was when the call was made
    stateUpstreams,  \* local of Gradient / RGradient
    stateRUpstreams, \* local of RGradient
    gt,              \* loop counter t of Gradient / RGradient
    gradCalls,       \* every upstream handed to a step's Block closure, in order
    props,           \* every PropagateGradient call on an input or the start state
    kind,            \* the session's type: "seqProp" or "seqRProp"
    memory,          \* the session's memory, oldest record first
    batch,           \* the batch the session's caller holds
    op,              \* the session's last operation: its arguments and outcome
    funcs,           \* the delegates of the Bidirectional / BlockSeqFunc receiver
    ret              \* what Parameters / Serialize returned

vars == <<pc, seqs, t, res, calls, upstream, upstreamR, g, rg, g0, rg0,
          stateUpstreams, stateRUpstreams, gt, gradCalls, props,
          kind, memory, batch, op,
         funcs, ret>>

sessVars == <<kind, memory, batch, op>>

seqFuncVars == <<funcs, ret>>

----------------------------------------------------------------------------
(* Bounds of the model. *)

MaxLanes == 2

MaxLen == 3

StateSize == 2

(* Scalar entries of the input vectors the callers supply. *)
InVals == {0, 1}

----------------------------------------------------------------------------
(* Vectors (linalg.Vector) are tuples of small integers; nil is <<>>. *)

Nil == <<>>

Zero(n) == [i \in 1..n |-> 0]

VecAdd(a, b) == [i \in 1..Len(a) |-> (a[i] + b[i]) % 3]

RECURSIVE VecSum(_)
VecSum(v) == IF v = <<>> THEN 0 ELSE v[1] + VecSum(Tail(v))

RECURSIVE Flatten(_)
Flatten(vs) == IF vs = <<>> THEN <<>> ELSE vs[1] \o Flatten(Tail(vs))

Min(a, b) == IF a < b THEN a ELSE b

Max(a, b) == IF a < b THEN b ELSE a

(* A variable (autofunc.Variable or autofunc.RVariable) is its identity    *)
(* (the pointer), its Vector and, in the R forms, its ROutputVec.          *)
NilVar == [id |-> <<"nil", 0, 0>>, Vector |-> Nil, ROutputVec |-> Nil]

Variable(id, vec) == [id |-> id, Vector |-> vec, ROutputVec |-> Nil]

RVariable(id, vec, rvec) == [id |-> id, Vector |-> vec, ROutputVec |-> rvec]

----------------------------------------------------------------------------
(* The Block: a BatcherBlock around a per-lane function F.                 *)

(* F applied to one lane's packed input (input followed by state): the     *)
(* packed output is the output vector followed by the new state.           *)
FLane(packed) ==
    LET n  == Len(packed) - StateSize
        in == SubSeq(packed, 1, n)
        st == SubSeq(packed, n + 1, Len(packed))
    IN  << (VecSum(in) + 2 * VecSum(st) + 1) % 3 >>
        \o [i \in 1..StateSize |-> (st[i] + VecSum(in) + i) % 3]

(* The derivative of F's packed output along the R direction. *)
FLaneR(packed, rpacked) ==
    LET n   == Len(packed) - StateSize
        rin == SubSeq(rpacked, 1, n)
        rst == SubSeq(rpacked, n + 1, Len(rpacked))
    IN  << (VecSum(rin) + 2 * VecSum(rst)) % 3 >>
        \o [i \in 1..StateSize |-> (rst[i] + VecSum(rin)) % 3]

joinBlockInput(in) ==
    Flatten([i \in 1..Len(in.States) |-> in.Inputs[i].Vector \o in.States[i].Vector])

joinBlockRInput(in) ==
    Flatten([i \in 1..Len(in.States) |->
                in.Inputs[i].ROutputVec \o in.States[i].ROutputVec])

(* F.Batch(joined, n): F on each of the n equal slices of joined. *)
FBatch(joined, n) ==
    LET w == Len(joined) \div n
    IN  Flatten([i \in 1..n |-> FLane(SubSeq(joined, (i - 1) * w + 1, i * w))])

FBatchR(joined, rjoined, n) ==
    LET w == Len(joined) \div n
    IN  Flatten([i \in 1..n |-> FLaneR(SubSeq(joined, (i - 1) * w + 1, i * w),
                                       SubSeq(rjoined, (i - 1) * w + 1, i * w))])

StartState == Variable(<<"start", 0, 0>>, Zero(StateSize))

StartStateR == RVariable(<<"start", 0, 0>>, Zero(StateSize), Zero(StateSize))

(* A batcherBlockOutput: the packed result, its R derivative (Nil in the   *)
(* plain form), the lane count, and the input the closure was built from.  *)
Batch(in) ==
    [Result    |-> FBatch(joinBlockInput(in), Len(in.States)),
     RResult   |-> Nil,
     LaneCount |-> Len(in.States),
     In        |-> in]

BatchR(in) ==
    [Result    |-> FBatch(joinBlockInput(in), Len(in.States)),
     RResult   |-> FBatchR(joinBlockInput(in), joinBlockRInput(in), Len(in.States)),
     LaneCount |-> Len(in.States),
     In        |-> in]

outputSize(b) == (Len(b.Result) \div b.LaneCount) - StateSize

extractStates(b, output) ==
    LET outSize == outputSize(b)
    IN  [i \in 1..b.LaneCount |->
            LET startIdx == (i - 1) * (outSize + StateSize) + outSize
            IN  SubSeq(output, startIdx + 1, startIdx + StateSize)]

extractOutputs(b, output) ==
    LET outSize == outputSize(b)
    IN  [i \in 1..b.LaneCount |->
            LET startIdx == (i - 1) * (outSize + StateSize)
            IN  SubSeq(output, startIdx + 1, startIdx + outSize)]

States(b) == extractStates(b, b.Result)

Outputs(b) == extractOutputs(b, b.Result)

RStates(b) == extractStates(b, b.RResult)

ROutputs(b) == extractOutputs(b, b.RResult)

----------------------------------------------------------------------------
(* The caller's batch.  seqs[l][k] is the scalar of the one-entry vector   *)
(* that lane l's k-th autofunc.Result reports as its Output(); the Result  *)
(* itself is a variable of the caller, identified by lane and time.        *)

RECURSIVE SeqsUpTo(_, _)
SeqsUpTo(S, n) ==
    IF n = 0 THEN { <<>> }
    ELSE LET shorter == SeqsUpTo(S, n - 1)
         IN  shorter \cup { Append(s, x) : s \in {q \in shorter : Len(q) = n - 1}, x \in S }

ValueSeqs == SeqsUpTo(InVals, MaxLen)

Batches == SeqsUpTo(ValueSeqs, MaxLanes)

InputId(l, k) == <<"x", k, l>>

InputOutput(b, l, k) == << b[l][k + 1] >>

InputROutput(b, l, k) == << 1 - b[l][k + 1] >>

----------------------------------------------------------------------------
(* BlockSeqFunc.BatchSeqs and BatchSeqsR.                                  *)

EmptyMap == [x \in {} |-> 0]

newStep(numLanes) ==
    [InStateVars |-> [l \in 1..numLanes |-> NilVar],
     InputVars   |-> [l \in 1..numLanes |-> NilVar],
     Inputs      |-> [l \in 1..numLanes |-> Nil],
     Outputs     |-> Nil,
     LaneToOut   |-> EmptyMap]

emptyInput == [Inputs |-> <<>>, States |-> <<>>]

newOutput(b) ==
    [StartState |-> StartState,
     Steps      |-> <<>>,
     PackedOut  |-> [l \in 1..Len(b) |-> <<>>],
     RPackedOut |-> Nil]

newROutput(b) ==
    [StartState |-> StartStateR,
     Steps      |-> <<>>,
     PackedOut  |-> [l \in 1..Len(b) |-> <<>>],
     RPackedOut |-> [l \in 1..Len(b) |-> <<>>]]

(* Mutant: the previous step's first batch position is read for every lane. *)
inStateVectorFirst(r, tt, l) ==
    IF tt > 0
    THEN LET s == r.Steps[tt] IN States(s.Outputs)[1]
    ELSE r.StartState.Vector

(* Mutant: the previous step's last batch position is read for every lane. *)
inStateVectorLast(r, tt, l) ==
    IF tt > 0
    THEN LET s == r.Steps[tt] IN States(s.Outputs)[s.Outputs.LaneCount]
    ELSE r.StartState.Vector

(* The vector of lane l's incoming state at time tt: the start state's     *)
(* output, overwritten when tt > 0 by the lane's outgoing state of the     *)
(* previous step, found through that step's LaneToOut.                     *)
inStateVector(r, tt, l) ==
    IF tt > 0
    THEN LET s == r.Steps[tt] IN States(s.Outputs)[s.LaneToOut[l]]
    ELSE r.StartState.Vector

inStateRVector(r, tt, l) ==
    IF tt > 0
    THEN LET s == r.Steps[tt] IN RStates(s.Outputs)[s.LaneToOut[l]]
    ELSE r.StartState.ROutputVec

(* Mutant: the lane's last timestep is dropped. *)
laneSkippedEarly(b, l, tt) == Len(b[l]) <= tt + 1

(* Whether the lane loop skips lane l of batch b at time tt. *)
laneSkipped(b, l, tt) == Len(b[l]) <= tt

(* The body of `for l, seq := range seqs` from lane l on; acc holds the    *)
(* step and the BlockInput built so far.                                   *)
RECURSIVE laneLoop(_, _, _, _, _)
laneLoop(b, l, tt, r, acc) ==
    IF l > Len(b) THEN acc
    ELSE IF laneSkipped(b, l, tt) THEN laneLoop(b, l + 1, tt, r, acc)
    ELSE LET inputVar == Variable(<<"input", tt, l>>, InputOutput(b, l, tt))
             stateVar == Variable(<<"state", tt, l>>, inStateVector(r, tt, l))
             step == [acc.step EXCEPT
                         !.LaneToOut   = (l :> (Len(acc.input.Inputs) + 1)) @@ @,
                         !.Inputs[l]   = InputId(l, tt),
                         !.InputVars[l]   = inputVar,
                         !.InStateVars[l] = stateVar]
             input == [Inputs |-> Append(acc.input.Inputs, inputVar),
                       States |-> Append(acc.input.States, stateVar)]
         IN  laneLoop(b, l + 1, tt, r, [step |-> step, input |-> input])

RECURSIVE laneLoopR(_, _, _, _, _)
laneLoopR(b, l, tt, r, acc) ==
    IF l > Len(b) THEN acc
    ELSE IF laneSkipped(b, l, tt) THEN laneLoopR(b, l + 1, tt, r, acc)
    ELSE LET inputVar == RVariable(<<"input", tt, l>>, InputOutput(b, l, tt),
                                   InputROutput(b, l, tt))
             stateVar == RVariable(<<"state", tt, l>>, inStateVector(r, tt, l),
                                   inStateRVector(r, tt, l))
             step == [acc.step EXCEPT
                         !.LaneToOut   = (l :> (Len(acc.input.Inputs) + 1)) @@ @,
                         !.Inputs[l]   = InputId(l, tt),
                         !.InputVars[l]   = inputVar,
                         !.InStateVars[l] = stateVar]
             input == [Inputs |-> Append(acc.input.Inputs, inputVar),
                       States |-> Append(acc.input.States, stateVar)]
         IN  laneLoopR(b, l + 1, tt, r, [step |-> step, input |-> input])

(* The step and the BlockInput one iteration of the for loop builds. *)
buildStep(b, tt, r) ==
    laneLoop(b, 1, tt, r, [step |-> newStep(Len(b)), input |-> emptyInput])

buildStepR(b, tt, r) ==
    laneLoopR(b, 1, tt, r, [step |-> newStep(Len(b)), input |-> emptyInput])

(* The loop's exit test: len(step.LaneToOut) == 0. *)
loopBreaks(step) == Cardinality(DOMAIN step.LaneToOut) = 0

(* Mutant: the outputs are appended by batch position, ignoring LaneToOut. *)
appendPackedByPosition(packed, step, outs) ==
    [l \in 1..Len(packed) |->
        IF l <= Len(outs) THEN Append(packed[l], outs[l]) ELSE packed[l]]

(* Appending the step's outputs to the lanes' packed outputs. *)
appendPacked(packed, step, outs) ==
    [l \in 1..Len(packed) |->
        IF l \in DOMAIN step.LaneToOut
        THEN Append(packed[l], outs[step.LaneToOut[l]])
        ELSE packed[l]]

(* The rest of an iteration that did not break: the Block call and the     *)
(* appends to Steps and PackedOut.                                         *)
recordStep(r, built) ==
    LET out  == Batch(built.input)
        step == [built.step EXCEPT !.Outputs = out]
    IN  [r EXCEPT !.Steps = Append(@, step),
                  !.PackedOut = appendPacked(@, step, Outputs(out))]

recordStepR(r, built) ==
    LET out  == BatchR(built.input)
        step == [built.step EXCEPT !.Outputs = out]
    IN  [r EXCEPT !.Steps = Append(@, step),
                  !.PackedOut = appendPacked(@, step, Outputs(out)),
                  !.RPackedOut = appendPacked(@, step, ROutputs(out))]

(* BatchSeqs as a function of its batch: the loop run to its break. *)
RECURSIVE BatchSeqsFrom(_, _, _)
BatchSeqsFrom(b, tt, r) ==
    LET built == buildStep(b, tt, r)
    IN  IF loopBreaks(built.step) THEN r
        ELSE BatchSeqsFrom(b, tt + 1, recordStep(r, built))

BatchSeqsOf(b) == BatchSeqsFrom(b, 0, newOutput(b))

gradVars == <<upstream, upstreamR, g, rg, g0, rg0, stateUpstreams,
              stateRUpstreams, gt, gradCalls, props>>

CallBatchSeqs ==
    /\ UNCHANGED <<sessVars, seqFuncVars>>
    /\ pc = "idle"
    /\ pc' = "BatchSeqs"
    /\ res' = newOutput(seqs)
    /\ t' = 0
    /\ UNCHANGED <<seqs, calls, gradVars>>

CallBatchSeqsR ==
    /\ UNCHANGED <<sessVars, seqFuncVars>>
    /\ pc = "idle"
    /\ pc' = "BatchSeqsR"
    /\ res' = newROutput(seqs)
    /\ t' = 0
    /\ UNCHANGED <<seqs, calls, gradVars>>

(* One iteration of BatchSeqs' for loop. *)
BatchSeqsLoop ==
    /\ UNCHANGED <<sessVars, seqFuncVars>>
    /\ pc = "BatchSeqs"
    /\ LET built == buildStep(seqs, t, res)
       IN  IF loopBreaks(built.step)
           THEN /\ pc' = "unrolled"
                /\ UNCHANGED <<res, t, calls>>
           ELSE /\ res' = recordStep(res, built)
                /\ calls' = Append(calls, built.input)
                /\ t' = t + 1
                /\ pc' = pc
    /\ UNCHANGED <<seqs, gradVars>>

(* One iteration of BatchSeqsR's for loop. *)
BatchSeqsRLoop ==
    /\ UNCHANGED <<sessVars, seqFuncVars>>
    /\ pc = "BatchSeqsR"
    /\ LET built == buildStepR(seqs, t, res)
       IN  IF loopBreaks(built.step)
           THEN /\ pc' = "unrolledR"
                /\ UNCHANGED <<res, t, calls>>
           ELSE /\ res' = recordStepR(res, built)
                /\ calls' = Append(calls, built.input)
                /\ t' = t + 1
                /\ pc' = pc
    /\ UNCHANGED <<seqs, gradVars>>

(* What the caller has fed the session since it was created: the batch of  *)
(* its first TimeStep, the number of records appended since, whether every *)
(* later TimeStep was passed the batch the one before it returned, and     *)
(* whether a Truncate(0) has emptied the session in between.               *)
NoRun == [first |-> <<>>, steps |-> 0, faithful |-> TRUE, emptied |-> FALSE]

NoOp == [name |-> "new", inSeqs |-> <<>>, n |-> 0, headSize |-> 0, tailSize |-> 0,
         before |-> <<>>, ret |-> <<>>, panic |-> FALSE, reset |-> FALSE,
         run |-> NoRun]

(* No receiver: the runs that call no method of a sequence function's     *)
(* capabilities.                                                           *)
NoFuncs == <<>>

InitCommon ==
    /\ kind = "none"
    /\ memory = <<>>
    /\ batch = <<>>
    /\ op = NoOp
    /\ pc = "idle"
    /\ t = 0
    /\ res = Nil
    /\ calls = <<>>
    /\ upstream = Nil
    /\ upstreamR = Nil
    /\ g = EmptyMap
    /\ rg = EmptyMap
    /\ g0 = EmptyMap
    /\ rg0 = EmptyMap
    /\ stateUpstreams = Nil
    /\ stateRUpstreams = Nil
    /\ gt = 0
    /\ gradCalls = <<>>
    /\ props = <<>>
    /\ funcs = NoFuncs
    /\ ret = Nil

InitUnroll ==
    /\ seqs \in Batches
    /\ InitCommon

NextUnroll ==
    \/ CallBatchSeqs
    \/ CallBatchSeqsR
    \/ BatchSeqsLoop
    \/ BatchSeqsRLoop

(* The unrolling of every batch within the bounds, in both forms. *)
SpecUnroll == InitUnroll /\ [][NextUnroll]_vars

----------------------------------------------------------------------------
(* Gradient maps.  A map is a function from variable identities to         *)
(* vectors; the callers' variables are the Block's parameter W, the start  *)
(* state and the variables behind the input Results.                       *)

ParamId == <<"W", 0, 0>>

StartId == <<"start", 0, 0>>

mapSet(m, k, v) == (k :> v) @@ m

mapDelete(m, k) == [x \in DOMAIN m \ {k} |-> m[x]]

(* Variable.PropagateGradient: added to the variable's entry, if any. *)
propagateVar(m, k, v) ==
    IF k \in DOMAIN m THEN [m EXCEPT ![k] = VecAdd(@, v)] ELSE m

(* Variable.Constant(g) and RVariable.Constant(rg, g). *)
Constant(id, gm) == id \notin DOMAIN gm

ConstantR(id, rgm, gm) == id \notin DOMAIN rgm /\ id \notin DOMAIN gm

(* The gradient of F's packed output for one lane, pulled back onto the    *)
(* lane's packed input (input followed by state) and onto W.               *)
FLaneGrad(packed, up) ==
    LET n    == Len(packed) - StateSize
        outs == Len(up) - StateSize
    IN  [i \in 1..Len(packed) |->
            IF i <= n THEN (VecSum(up) + packed[i]) % 3
            ELSE (up[outs + (i - n)] + 2 * VecSum(SubSeq(up, 1, outs)) + 1) % 3]

FLaneRGrad(packed, rpacked, up, rup) ==
    LET n    == Len(packed) - StateSize
        outs == Len(up) - StateSize
    IN  [i \in 1..Len(packed) |->
            IF i <= n THEN (VecSum(rup) + rpacked[i]) % 3
            ELSE (rup[outs + (i - n)] + 2 * VecSum(SubSeq(rup, 1, outs))
                    + VecSum(up)) % 3]

(* Mutant: a lane's state gradient is packed before its output gradient. *)
joinUpstreamStateFirst(b, states, outputs) ==
    LET outSize == outputSize(b)
        sts  == IF states = Nil THEN [i \in 1..Len(outputs) |-> Zero(StateSize)]
                ELSE states
        outs == IF states # Nil /\ outputs = Nil
                THEN [i \in 1..Len(states) |-> Zero(outSize)]
                ELSE outputs
    IN  IF \/ sts = <<>>
           \/ outs = <<>>
           \/ Len(outs) > Len(sts)
           \/ \E i \in 1..Len(outs) :
                 Len(outs[i]) # outSize \/ Len(sts[i]) # StateSize
        THEN [ok |-> FALSE, vec |-> Nil]
        ELSE [ok |-> TRUE,
              vec |-> Flatten([i \in 1..Len(outs) |-> sts[i] \o outs[i]])]

(* batcherBlockOutput.joinUpstream: ok is FALSE where the code panics. *)
joinUpstream(b, states, outputs) ==
    LET outSize == outputSize(b)
        sts  == IF states = Nil THEN [i \in 1..Len(outputs) |-> Zero(StateSize)]
                ELSE states
        outs == IF states # Nil /\ outputs = Nil
                THEN [i \in 1..Len(states) |-> Zero(outSize)]
                ELSE outputs
    IN  IF \/ sts = <<>>
           \/ outs = <<>>
           \/ Len(outs) > Len(sts)
           \/ \E i \in 1..Len(outs) :
                 Len(outs[i]) # outSize \/ Len(sts[i]) # StateSize
        THEN [ok |-> FALSE, vec |-> Nil]
        ELSE [ok |-> TRUE,
              vec |-> SubSeq(Flatten([i \in 1..Len(outs) |-> outs[i] \o sts[i]])
                               \o Zero((Len(sts[1]) + Len(outs[1])) * Len(sts)),
                             1, (Len(sts[1]) + Len(outs[1])) * Len(sts))]

(* Result.PropagateGradient of the Block's packed result: every lane's     *)
(* slice of the upstream is pulled back onto the lane's input and state    *)
(* variables and onto W, where the map has an entry for them.              *)
RECURSIVE propagateResult(_, _, _, _)
propagateResult(b, vec, gm, i) ==
    IF i > b.LaneCount THEN gm
    ELSE LET w      == Len(vec) \div b.LaneCount
             up     == SubSeq(vec, (i - 1) * w + 1, i * w)
             inVar  == b.In.Inputs[i]
             stVar  == b.In.States[i]
             n      == Len(inVar.Vector)
             d      == FLaneGrad(inVar.Vector \o stVar.Vector, up)
             g1     == propagateVar(gm, inVar.id, SubSeq(d, 1, n))
             g2     == propagateVar(g1, stVar.id, SubSeq(d, n + 1, Len(d)))
             g3     == propagateVar(g2, ParamId, << VecSum(up) % 3 >>)
         IN  propagateResult(b, vec, g3, i + 1)

RECURSIVE propagateRResult(_, _, _, _, _)
propagateRResult(b, vec, rvec, rgm, i) ==
    IF i > b.LaneCount THEN rgm
    ELSE LET w      == Len(vec) \div b.LaneCount
             up     == SubSeq(vec, (i - 1) * w + 1, i * w)
             rup    == SubSeq(rvec, (i - 1) * w + 1, i * w)
             inVar  == b.In.Inputs[i]
             stVar  == b.In.States[i]
             n      == Len(inVar.Vector)
             d      == FLaneRGrad(inVar.Vector \o stVar.Vector,
                                  inVar.ROutputVec \o stVar.ROutputVec, up, rup)
             g1     == propagateVar(rgm, inVar.id, SubSeq(d, 1, n))
             g2     == propagateVar(g1, stVar.id, SubSeq(d, n + 1, Len(d)))
             g3     == propagateVar(g2, ParamId, << VecSum(rup) % 3 >>)
         IN  propagateRResult(b, vec, rvec, g3, i + 1)

(* batcherBlockOutput.Gradient: the map after the call. *)
blockGradient(b, u, gm) ==
    LET joined == joinUpstream(b, u.States, u.Outputs)
    IN  [ok |-> joined.ok,
         g  |-> IF joined.ok THEN propagateResult(b, joined.vec, gm, 1) ELSE gm]

(* batcherBlockOutput.RGradient: both maps after the call. *)
blockRGradient(b, u, rgm, gm) ==
    LET joined  == joinUpstream(b, u.States, u.Outputs)
        rjoined == joinUpstream(b, u.RStates, u.ROutputs)
    IN  IF joined.ok /\ rjoined.ok
        THEN [ok |-> TRUE,
              g  |-> propagateResult(b, joined.vec, gm, 1),
              rg |-> propagateRResult(b, joined.vec, rjoined.vec, rgm, 1)]
        ELSE [ok |-> FALSE, g |-> gm, rg |-> rgm]

----------------------------------------------------------------------------
(* BlockSeqFuncOutput.Gradient and BlockSeqFuncROutput.RGradient.          *)

(* loopUsedLanes: the lanes f is called on, in the order of the calls. *)
RECURSIVE usedLanesFrom(_, _, _)
usedLanesFrom(laneToOut, lane, k) ==
    IF k > 0
    THEN IF lane \in DOMAIN laneToOut
         THEN <<lane>> \o usedLanesFrom(laneToOut, lane + 1, k - 1)
         ELSE usedLanesFrom(laneToOut, lane + 1, k)
    ELSE <<>>

(* Mutant: the lanes are visited from the highest down. *)
loopUsedLanesDescending(laneToOut) ==
    LET up == usedLanesFrom(laneToOut, 1, Cardinality(DOMAIN laneToOut))
    IN  [i \in 1..Len(up) |-> up[Len(up) - i + 1]]

loopUsedLanes(laneToOut) == usedLanesFrom(laneToOut, 1, Cardinality(DOMAIN laneToOut))

(* Mutant: only the number of lanes is checked. *)
upstreamMismatchLanesOnly(r, up) == Len(up) # Len(r.PackedOut)

(* The dimension checks at the head of Gradient and of RGradient. *)
upstreamMismatch(r, up) ==
    \/ Len(up) # Len(r.PackedOut)
    \/ \E i \in 1..Len(up) : Len(up[i]) # Len(r.PackedOut[i])

upstreamRMismatch(r, up, upR) ==
    \/ Len(up) # Len(r.PackedOut) \/ Len(upR) # Len(r.PackedOut)
    \/ \E i \in 1..Len(r.PackedOut) :
          Len(up[i]) # Len(r.PackedOut[i]) \/ Len(upR[i]) # Len(r.PackedOut[i])

emptyUpstream == [Outputs |-> <<>>, States |-> <<>>, ROutputs |-> <<>>, RStates |-> <<>>]

(* Mutant: the state gradients of the step replayed before are not handed *)
(* on: every lane's state upstream is zero.                                *)
RECURSIVE insertPassNoState(_, _, _, _, _)
insertPassNoState(lanes, step, tt, sUp, acc) ==
    IF lanes = <<>> THEN acc
    ELSE LET l        == Head(lanes)
             stateVar == step.InStateVars[l]
             u        == upstream[l][tt + 1]
             s        == Zero(Len(stateVar.Vector))
             g1       == mapSet(acc.g, stateVar.id, Zero(Len(stateVar.Vector)))
             g2       == IF ~Constant(step.Inputs[l], g1)
                         THEN mapSet(g1, step.InputVars[l].id,
                                     Zero(Len(step.InputVars[l].Vector)))
                         ELSE g1
         IN  insertPassNoState(Tail(lanes), step, tt, sUp,
                               [up |-> [acc.up EXCEPT !.Outputs = Append(@, u),
                                                      !.States  = Append(@, s)],
                                g  |-> g2])

(* The first loopUsedLanes of an iteration, over the lanes still to visit: *)
(* the step's upstream is assembled and the temporaries are inserted.      *)
RECURSIVE insertPass(_, _, _, _, _)
insertPass(lanes, step, tt, sUp, acc) ==
    IF lanes = <<>> THEN acc
    ELSE LET l        == Head(lanes)
             stateVar == step.InStateVars[l]
             u        == upstream[l][tt + 1]
             s        == IF sUp[l] = Nil THEN Zero(Len(stateVar.Vector)) ELSE sUp[l]
             g1       == mapSet(acc.g, stateVar.id, Zero(Len(stateVar.Vector)))
             g2       == IF ~Constant(step.Inputs[l], g1)
                         THEN mapSet(g1, step.InputVars[l].id,
                                     Zero(Len(step.InputVars[l].Vector)))
                         ELSE g1
         IN  insertPass(Tail(lanes), step, tt, sUp,
                        [up |-> [acc.up EXCEPT !.Outputs = Append(@, u),
                                               !.States  = Append(@, s)],
                         g  |-> g2])

(* Mutant: the input variable's entry is read but never deleted. *)
RECURSIVE deletePassLeaky(_, _, _)
deletePassLeaky(lanes, step, acc) ==
    IF lanes = <<>> THEN acc
    ELSE LET l        == Head(lanes)
             stateVar == step.InStateVars[l]
             sUp      == [acc.sUp EXCEPT ![l] = acc.g[stateVar.id]]
             g1       == mapDelete(acc.g, stateVar.id)
             input    == step.Inputs[l]
         IN  IF ~Constant(input, g1)
             THEN LET up == g1[step.InputVars[l].id]
                  IN  deletePassLeaky(Tail(lanes), step,
                                 [sUp   |-> sUp,
                                  g     |-> propagateVar(g1, input, up),
                                  props |-> Append(acc.props, [to |-> input, up |-> up])])
             ELSE deletePassLeaky(Tail(lanes), step,
                             [sUp |-> sUp, g |-> g1, props |-> acc.props])

(* The second loopUsedLanes: the state gradients are taken out, the        *)
(* temporaries deleted and the input gradients propagated.                 *)
RECURSIVE deletePass(_, _, _)
deletePass(lanes, step, acc) ==
    IF lanes = <<>> THEN acc
    ELSE LET l        == Head(lanes)
             stateVar == step.InStateVars[l]
             sUp      == [acc.sUp EXCEPT ![l] = acc.g[stateVar.id]]
             g1       == mapDelete(acc.g, stateVar.id)
             input    == step.Inputs[l]
         IN  IF ~Constant(input, g1)
             THEN LET up == g1[step.InputVars[l].id]
                      g2 == mapDelete(g1, step.InputVars[l].id)
                  IN  deletePass(Tail(lanes), step,
                                 [sUp   |-> sUp,
                                  g     |-> propagateVar(g2, input, up),
                                  props |-> Append(acc.props, [to |-> input, up |-> up])])
             ELSE deletePass(Tail(lanes), step,
                             [sUp |-> sUp, g |-> g1, props |-> acc.props])

RECURSIVE insertPassR(_, _, _, _, _, _)
insertPassR(lanes, step, tt, sUp, sRUp, acc) ==
    IF lanes = <<>> THEN acc
    ELSE LET l        == Head(lanes)
             stateVar == step.InStateVars[l]
             u        == upstream[l][tt + 1]
             uR       == upstreamR[l][tt + 1]
             s        == IF sUp[l] = Nil THEN Zero(Len(stateVar.Vector)) ELSE sUp[l]
             sR       == IF sUp[l] = Nil THEN Zero(Len(stateVar.Vector)) ELSE sRUp[l]
             g1       == mapSet(acc.g, stateVar.id, Zero(Len(stateVar.Vector)))
             rg1      == mapSet(acc.rg, stateVar.id, Zero(Len(stateVar.Vector)))
             nonConst == ~ConstantR(step.Inputs[l], rg1, g1)
             v        == step.InputVars[l]
         IN  insertPassR(Tail(lanes), step, tt, sUp, sRUp,
                         [up |-> [acc.up EXCEPT !.Outputs  = Append(@, u),
                                                !.ROutputs = Append(@, uR),
                                                !.States   = Append(@, s),
                                                !.RStates  = Append(@, sR)],
                          g  |-> IF nonConst THEN mapSet(g1, v.id, Zero(Len(v.Vector)))
                                 ELSE g1,
                          rg |-> IF nonConst THEN mapSet(rg1, v.id, Zero(Len(v.Vector)))
                                 ELSE rg1])

(* Mutant: the state variable's entry stays in the R-gradient map. *)
RECURSIVE deletePassRLeaky(_, _, _)
deletePassRLeaky(lanes, step, acc) ==
    IF lanes = <<>> THEN acc
    ELSE LET l        == Head(lanes)
             stateVar == step.InStateVars[l]
             sUp      == [acc.sUp EXCEPT ![l] = acc.g[stateVar.id]]
             sRUp     == [acc.sRUp EXCEPT ![l] = acc.rg[stateVar.id]]
             g1       == mapDelete(acc.g, stateVar.id)
             rg1      == acc.rg
             input    == step.Inputs[l]
         IN  IF ~ConstantR(input, rg1, g1)
             THEN LET v   == step.InputVars[l]
                      up  == g1[v.id]
                      upR == rg1[v.id]
                      g2  == mapDelete(g1, v.id)
                      rg2 == mapDelete(rg1, v.id)
                  IN  deletePassRLeaky(Tail(lanes), step,
                                  [sUp   |-> sUp,
                                   sRUp  |-> sRUp,
                                   g     |-> propagateVar(g2, input, up),
                                   rg    |-> propagateVar(rg2, input, upR),
                                   props |-> Append(acc.props,
                                                [to |-> input, up |-> up, upR |-> upR])])
             ELSE deletePassRLeaky(Tail(lanes), step,
                              [sUp |-> sUp, sRUp |-> sRUp, g |-> g1, rg |-> rg1,
                               props |-> acc.props])

RECURSIVE deletePassR(_, _, _)
deletePassR(lanes, step, acc) ==
    IF lanes = <<>> THEN acc
    ELSE LET l        == Head(lanes)
             stateVar == step.InStateVars[l]
             sUp      == [acc.sUp EXCEPT ![l] = acc.g[stateVar.id]]
             sRUp     == [acc.sRUp EXCEPT ![l] = acc.rg[stateVar.id]]
             g1       == mapDelete(acc.g, stateVar.id)
             rg1      == mapDelete(acc.rg, stateVar.id)
             input    == step.Inputs[l]
         IN  IF ~ConstantR(input, rg1, g1)
             THEN LET v   == step.InputVars[l]
                      up  == g1[v.id]
                      upR == rg1[v.id]
                      g2  == mapDelete(g1, v.id)
                      rg2 == mapDelete(rg1, v.id)
                  IN  deletePassR(Tail(lanes), step,
                                  [sUp   |-> sUp,
                                   sRUp  |-> sRUp,
                                   g     |-> propagateVar(g2, input, up),
                                   rg    |-> propagateVar(rg2, input, upR),
                                   props |-> Append(acc.props,
                                                [to |-> input, up |-> up, upR |-> upR])])
             ELSE deletePassR(Tail(lanes), step,
                              [sUp |-> sUp, sRUp |-> sRUp, g |-> g1, rg |-> rg1,
                               props |-> acc.props])

(* The final loop over stateUpstreams: the start state's propagations. *)
(* Mutant: the start state receives the first lane's gradient only. *)
RECURSIVE startPassOnce(_, _, _)
startPassOnce(sUp, i, acc) ==
    IF i > Len(sUp) THEN acc
    ELSE IF sUp[i] # Nil
         THEN [g     |-> propagateVar(acc.g, res.StartState.id, sUp[i]),
               props |-> Append(acc.props,
                                [to |-> res.StartState.id, up |-> sUp[i]])]
         ELSE startPassOnce(sUp, i + 1, acc)

RECURSIVE startPass(_, _, _)
startPass(sUp, i, acc) ==
    IF i > Len(sUp) THEN acc
    ELSE IF sUp[i] # Nil
         THEN startPass(sUp, i + 1,
                        [g     |-> propagateVar(acc.g, res.StartState.id, sUp[i]),
                         props |-> Append(acc.props,
                                          [to |-> res.StartState.id, up |-> sUp[i]])])
         ELSE startPass(sUp, i + 1, acc)

RECURSIVE startPassR(_, _, _, _)
startPassR(sUp, sRUp, i, acc) ==
    IF i > Len(sUp) THEN acc
    ELSE IF sUp[i] # Nil
         THEN startPassR(sUp, sRUp, i + 1,
                    [g     |-> propagateVar(acc.g, res.StartState.id, sUp[i]),
                     rg    |-> propagateVar(acc.rg, res.StartState.id, sRUp[i]),
                     props |-> Append(acc.props,
                                  [to |-> res.StartState.id, up |-> sUp[i],
                                   upR |-> sRUp[i]])])
         ELSE startPassR(sUp, sRUp, i + 1, acc)

(* The cost function's derivative at the output, against the target. *)
costFuncDeriv(desiredOut, output) ==
    [j \in 1..Len(output) |-> (output[j] + 2 * desiredOut[j]) % 3]

(* The R derivative that costFuncRDeriv returns beside costFuncDeriv's. *)
costFuncRDeriv(desiredOut, output, rout) ==
    [j \in 1..Len(output) |-> (rout[j] + output[j] + desiredOut[j]) % 3]

(* The Sample behind an input sequence: its inputs as vectors, and the    *)
(* target vector of each time.                                             *)
SampleFor(seq) ==
    [Inputs  |-> [k \in 1..Len(seq) |-> << seq[k] >>],
     Outputs |-> [k \in 1..Len(seq) |-> << (Len(seq) + 2 * k) % 3 >>]]

(* The upstream of a caller that trains on the samples of b: the cost      *)
(* function's derivative at every packed output.                           *)
costUpstream(b, r) ==
    [l \in 1..Len(r.PackedOut) |->
        [k \in 1..Len(r.PackedOut[l]) |->
            costFuncDeriv(SampleFor(b[l]).Outputs[k], r.PackedOut[l][k])]]

(* The upstreams the callers pass: one vector per lane and time, of the   *)
(* Block's output width.                                                   *)
upstreamOf(lens) == [l \in 1..Len(lens) |-> [k \in 1..lens[l] |-> << (l + k) % 3 >>]]

upstreamROf(lens) == [l \in 1..Len(lens) |-> [k \in 1..lens[l] |-> << (l + 2 * k) % 3 >>]]

packedLens(r) == [l \in 1..Len(r.PackedOut) |-> Len(r.PackedOut[l])]

(* The shapes tried: the packed output's own, and that shape with the last *)
(* lane missing, a lane too many, or one lane a step longer or shorter.    *)
UpstreamShapes(r) ==
    LET own == packedLens(r)
    IN  {own, Append(own, 0), Append(own, 1)}
        \cup {SubSeq(own, 1, Len(own) - 1) : x \in {y \in {1} : Len(own) > 0}}
        \cup {[own EXCEPT ![l] = @ + 1] : l \in 1..Len(own)}
        \cup {[own EXCEPT ![l] = @ - 1] : l \in {x \in 1..Len(own) : own[x] > 0}}

(* The upstreams passed to Gradient: one of every shape tried, and the     *)
(* cost derivative of the samples.                                         *)
Upstreams(b, r) ==
    {upstreamOf(shape) : shape \in UpstreamShapes(r)} \cup {costUpstream(b, r)}

(* The caller's map: W, the start state when it is trainable, and the      *)
(* variables behind the inputs of the lanes in nonConst.                   *)
callerMap(b, nonConst, startIn) ==
    LET keys == {ParamId}
                \cup (IF startIn THEN {StartId} ELSE {})
                \cup {InputId(l, k - 1) : l \in nonConst, k \in 1..MaxLen + 1}
        live == {id \in keys : id[1] # "x" \/ id[2] < Len(b[id[3]])}
    IN  [id \in live |-> IF id = StartId THEN Zero(StateSize) ELSE <<0>>]

CallGradient ==
    /\ UNCHANGED <<sessVars, seqFuncVars>>
    /\ pc = "unrolled"
    /\ \E up \in Upstreams(seqs, res), nonConst \in SUBSET (1..Len(seqs)),
          startIn \in BOOLEAN :
          LET gm == callerMap(seqs, nonConst, startIn)
          IN  /\ upstream' = up
              /\ g' = gm
              /\ g0' = gm
              /\ IF upstreamMismatch(res, up)
                 THEN /\ pc' = "panic"
                      /\ UNCHANGED <<stateUpstreams, gt>>
                 ELSE /\ pc' = "Gradient"
                      /\ stateUpstreams' = [l \in 1..Len(res.PackedOut) |-> Nil]
                      /\ gt' = Len(res.Steps) - 1
    /\ UNCHANGED <<seqs, t, res, calls, upstreamR, rg, rg0, stateRUpstreams,
                   gradCalls, props>>

(* One iteration of Gradient's loop over the steps. *)
GradientLoop ==
    /\ UNCHANGED <<sessVars, seqFuncVars>>
    /\ pc = "Gradient"
    /\ gt >= 0
    /\ LET step  == res.Steps[gt + 1]
           lanes == loopUsedLanes(step.LaneToOut)
           ins   == insertPass(lanes, step, gt, stateUpstreams,
                               [up |-> emptyUpstream, g |-> g])
           back  == blockGradient(step.Outputs, ins.up, ins.g)
           del   == deletePass(lanes, step,
                               [sUp |-> stateUpstreams, g |-> back.g, props |-> props])
       IN  IF back.ok
           THEN /\ gradCalls' = Append(gradCalls, [t |-> gt, up |-> ins.up,
                                                  keys |-> DOMAIN ins.g,
                                                  rkeys |-> DOMAIN rg])
                /\ g' = del.g
                /\ stateUpstreams' = del.sUp
                /\ props' = del.props
                /\ gt' = gt - 1
                /\ pc' = pc
           ELSE /\ g' = ins.g
                /\ pc' = "panic"
                /\ UNCHANGED <<gradCalls, stateUpstreams, props, gt>>
    /\ UNCHANGED <<seqs, t, res, calls, upstream, upstreamR, rg, g0, rg0,
                   stateRUpstreams>>

(* The loop's end: the start state's propagations and the return. *)
GradientReturn ==
    /\ UNCHANGED <<sessVars, seqFuncVars>>
    /\ pc = "Gradient"
    /\ gt < 0
    /\ LET fin == startPass(stateUpstreams, 1, [g |-> g, props |-> props])
       IN  /\ g' = fin.g
           /\ props' = fin.props
    /\ pc' = "done"
    /\ UNCHANGED <<seqs, t, res, calls, upstream, upstreamR, rg, g0, rg0,
                   stateUpstreams, stateRUpstreams, gt, gradCalls>>

CallRGradient ==
    /\ UNCHANGED <<sessVars, seqFuncVars>>
    /\ pc = "unrolledR"
    /\ \E shape \in UpstreamShapes(res), bad \in {"none", "upstream", "upstreamR"},
          nonConst \in SUBSET (1..Len(seqs)), startIn \in BOOLEAN :
          LET own == packedLens(res)
              up  == upstreamOf(IF bad = "upstream" THEN shape ELSE own)
              upR == upstreamROf(IF bad = "upstreamR" THEN shape ELSE own)
              gm  == callerMap(seqs, nonConst, startIn)
          IN  /\ upstream' = up
              /\ upstreamR' = upR
              /\ g' = gm
              /\ g0' = gm
              /\ rg' = gm
              /\ rg0' = gm
              /\ IF upstreamRMismatch(res, up, upR)
                 THEN /\ pc' = "panicR"
                      /\ UNCHANGED <<stateUpstreams, stateRUpstreams, gt>>
                 ELSE /\ pc' = "RGradient"
                      /\ stateUpstreams' = [l \in 1..Len(res.PackedOut) |-> Nil]
                      /\ stateRUpstreams' = [l \in 1..Len(res.PackedOut) |-> Nil]
                      /\ gt' = Len(res.Steps) - 1
    /\ UNCHANGED <<seqs, t, res, calls, gradCalls, props>>

(* One iteration of RGradient's loop over the steps. *)
RGradientLoop ==
    /\ UNCHANGED <<sessVars, seqFuncVars>>
    /\ pc = "RGradient"
    /\ gt >= 0
    /\ LET step  == res.Steps[gt + 1]
           lanes == loopUsedLanes(step.LaneToOut)
           ins   == insertPassR(lanes, step, gt, stateUpstreams, stateRUpstreams,
                                [up |-> emptyUpstream, g |-> g, rg |-> rg])
           back  == blockRGradient(step.Outputs, ins.up, ins.rg, ins.g)
           del   == deletePassR(lanes, step,
                                [sUp |-> stateUpstreams, sRUp |-> stateRUpstreams,
                                 g |-> back.g, rg |-> back.rg, props |-> props])
       IN  IF back.ok
           THEN /\ gradCalls' = Append(gradCalls, [t |-> gt, up |-> ins.up,
                                                  keys |-> DOMAIN ins.g,
                                                  rkeys |-> DOMAIN ins.rg])
                /\ g' = del.g
                /\ rg' = del.rg
                /\ stateUpstreams' = del.sUp
                /\ stateRUpstreams' = del.sRUp
                /\ props' = del.props
                /\ gt' = gt - 1
                /\ pc' = pc
           ELSE /\ g' = ins.g
                /\ rg' = ins.rg
                /\ pc' = "panicR"
                /\ UNCHANGED <<gradCalls, stateUpstreams, stateRUpstreams, props, gt>>
    /\ UNCHANGED <<seqs, t, res, calls, upstream, upstreamR, g0, rg0>>

RGradientReturn ==
    /\ UNCHANGED <<sessVars, seqFuncVars>>
    /\ pc = "RGradient"
    /\ gt < 0
    /\ LET fin == startPassR(stateUpstreams, stateRUpstreams, 1,
                             [g |-> g, rg |-> rg, props |-> props])
       IN  /\ g' = fin.g
           /\ rg' = fin.rg
           /\ props' = fin.props
    /\ pc' = "doneR"
    /\ UNCHANGED <<seqs, t, res, calls, upstream, upstreamR, g0, rg0,
                   stateUpstreams, stateRUpstreams, gt, gradCalls>>

(* The batches of the gradient runs: every combination of lane lengths. *)
GradSeqs == {[k \in 1..n |-> k % 2] : n \in 0..MaxLen}

GradBatches == SeqsUpTo(GradSeqs, MaxLanes)

InitGrad ==
    /\ seqs \in GradBatches
    /\ InitCommon

NextGrad ==
    \/ CallBatchSeqs
    \/ CallBatchSeqsR
    \/ BatchSeqsLoop
    \/ BatchSeqsRLoop
    \/ CallGradient
    \/ GradientLoop
    \/ GradientReturn
    \/ CallRGradient
    \/ RGradientLoop
    \/ RGradientReturn

(* An unrolling followed by the backward replay of its output. *)
SpecGrad == InitGrad /\ [][NextGrad]_vars

----------------------------------------------------------------------------
(* seqProp and seqRProp: the truncated back-propagation sessions.          *)

(* A Sample: the input vectors still to feed and their target vectors. *)
SampleOf(n) ==
    [Inputs  |-> [k \in 1..n |-> << (n + k) % 2 >>],
     Outputs |-> [k \in 1..n |-> << (n + 2 * k) % 3 >>]]

(* The batches a caller starts from: up to MaxLanes lanes whose lengths    *)
(* climb or fall by one from lane to lane, wrapping between 0 and MaxLen.  *)
SampleBatches ==
    {[l \in 1..n |-> SampleOf((first + l * by) % (MaxLen + 1))] :
        n \in 0..MaxLanes, first \in 0..MaxLen, by \in {1, MaxLen}}

removeEmpty(ss) ==
    LET nonEmpty(seq) == Len(seq.Inputs) # 0 IN SelectSeq(ss, nonEmpty)

removeFirst(ss) ==
    LET more(seq) == Len(seq.Inputs) # 1
        kept == SelectSeq(ss, more)
    IN  [i \in 1..Len(kept) |->
            [Inputs |-> Tail(kept[i].Inputs), Outputs |-> Tail(kept[i].Outputs)]]

RECURSIVE filterContinued(_, _)
filterContinued(ss, ins) ==
    IF ss = <<>> THEN <<>>
    ELSE IF Len(Head(ss).Inputs) > 1
         THEN <<Head(ins)>> \o filterContinued(Tail(ss), Tail(ins))
         ELSE filterContinued(Tail(ss), Tail(ins))

(* Mutant: a lane that ended gets its successor's place filled with ones. *)
RECURSIVE injectDiscontinuedOnes(_, _, _)
injectDiscontinuedOnes(ss, outs, vecLen) ==
    IF ss = <<>> THEN <<>>
    ELSE IF Len(Head(ss).Inputs) > 1
         THEN <<Head(outs)>> \o injectDiscontinuedOnes(Tail(ss), Tail(outs), vecLen)
         ELSE <<[j \in 1..vecLen |-> 1]>> \o injectDiscontinuedOnes(Tail(ss), outs, vecLen)

(* Mutant: the zero vectors of the lanes that ended come after the         *)
(* gradients of the lanes that went on.                                    *)
injectDiscontinuedAtEnd(ss, outs, vecLen) ==
    outs \o [k \in 1..(Len(ss) - Len(outs)) |-> Zero(vecLen)]

RECURSIVE injectDiscontinued(_, _, _)
injectDiscontinued(ss, outs, vecLen) ==
    IF ss = <<>> THEN <<>>
    ELSE IF Len(Head(ss).Inputs) > 1
         THEN <<Head(outs)>> \o injectDiscontinued(Tail(ss), Tail(outs), vecLen)
         ELSE <<Zero(vecLen)>> \o injectDiscontinued(Tail(ss), outs, vecLen)

(* A memory record.  serial stands for the identity of the variables the   *)
(* step allocated: it names them in the gradient maps.                     *)
nextSerial(mem) == IF Len(mem) = 0 THEN 0 ELSE mem[Len(mem)].serial + 1

NilStep == [StartState |-> NilVar, Output |-> Nil, InStates |-> <<>>, InSeqs |-> <<>>,
            serial |-> 0 - 1]

(* Mutant: only lanes too many are refused, lanes too few are fed. *)
laneCountMismatchOnlyMore(lastStates, ss) == Len(lastStates) < Len(ss)

(* headInput's check of the lanes passed against the lanes that continue. *)
laneCountMismatch(lastStates, ss) == Len(lastStates) # Len(ss)

(* Mutant: every timestep feeds the lanes the start state. *)
headInputRestart(mem, ss) ==
    IF \E lane \in 1..Len(ss) : Len(ss[lane].Inputs) = 0
    THEN [panic |-> TRUE, input |-> emptyInput]
    ELSE [panic |-> FALSE,
          input |->
            [Inputs |-> [lane \in 1..Len(ss) |->
                            Variable(<<"input", nextSerial(mem), lane>>,
                                     ss[lane].Inputs[1])],
             States |-> [lane \in 1..Len(ss) |->
                            Variable(<<"state", nextSerial(mem), lane>>,
                                     StartState.Vector)]]]

(* seqProp.headInput: panic is TRUE where the code panics. *)
headInput(mem, ss) ==
    LET lastBlock  == mem[Len(mem)]
        lastStates == IF Len(mem) > 0
                      THEN filterContinued(lastBlock.InSeqs, States(lastBlock.Output))
                      ELSE [i \in 1..Len(ss) |-> StartState.Vector]
    IN  IF Len(mem) > 0 /\ laneCountMismatch(lastStates, ss)
        THEN [panic |-> TRUE, input |-> emptyInput]
        ELSE IF \E lane \in 1..Len(ss) : Len(ss[lane].Inputs) = 0
        THEN [panic |-> TRUE, input |-> emptyInput]
        ELSE [panic |-> FALSE,
              input |->
                [Inputs |-> [lane \in 1..Len(ss) |->
                                Variable(<<"input", nextSerial(mem), lane>>,
                                         ss[lane].Inputs[1])],
                 States |-> [lane \in 1..Len(ss) |->
                                Variable(<<"state", nextSerial(mem), lane>>,
                                         lastStates[lane])]]]

(* seqRProp.headInput. *)
headInputR(mem, ss) ==
    LET lastBlock   == mem[Len(mem)]
        lastStates  == IF Len(mem) > 0
                       THEN filterContinued(lastBlock.InSeqs, States(lastBlock.Output))
                       ELSE [i \in 1..Len(ss) |-> StartStateR.Vector]
        lastRStates == IF Len(mem) > 0
                       THEN filterContinued(lastBlock.InSeqs, RStates(lastBlock.Output))
                       ELSE [i \in 1..Len(ss) |-> StartStateR.ROutputVec]
    IN  IF Len(mem) > 0 /\ laneCountMismatch(lastStates, ss)
        THEN [panic |-> TRUE, input |-> emptyInput]
        ELSE IF \E lane \in 1..Len(ss) : Len(ss[lane].Inputs) = 0
        THEN [panic |-> TRUE, input |-> emptyInput]
        ELSE LET zeroInRVec == Zero(Len(ss[1].Inputs[1]))
             IN  [panic |-> FALSE,
                  input |->
                    [Inputs |-> [lane \in 1..Len(ss) |->
                                    RVariable(<<"input", nextSerial(mem), lane>>,
                                              ss[lane].Inputs[1], zeroInRVec)],
                     States |-> [lane \in 1..Len(ss) |->
                                    RVariable(<<"state", nextSerial(mem), lane>>,
                                              lastStates[lane], lastRStates[lane])]]]

(* Mutant: the first call keeps the sequences that have no inputs. *)
firstBatchKept(mem, inSeqs) == inSeqs

(* The batch TimeStep works on: without its empty sequences on the first   *)
(* timestep.                                                               *)
firstBatch(mem, inSeqs) == IF Len(mem) = 0 THEN removeEmpty(inSeqs) ELSE inSeqs

(* Mutant: on a session that holds records the new record takes the place *)
(* of the newest one.                                                      *)
timeStepOverwrites(mem, inSeqs) ==
    LET in1 == firstBatch(mem, inSeqs)
        h   == headInput(mem, in1)
        rec == [StartState |-> IF Len(mem) = 0 THEN StartState ELSE NilVar,
                Output     |-> Batch(h.input),
                InStates   |-> h.input.States,
                InSeqs     |-> in1,
                serial     |-> nextSerial(mem)]
    IN  IF Len(in1) = 0
        THEN [memory |-> mem, ret |-> <<>>, panic |-> FALSE]
        ELSE IF h.panic
        THEN [memory |-> mem, ret |-> <<>>, panic |-> TRUE]
        ELSE [memory |-> IF Len(mem) = 0 THEN Append(mem, rec)
                         ELSE [mem EXCEPT ![Len(mem)] = rec],
              ret    |-> removeFirst(in1),
              panic  |-> FALSE]

(* Mutant: every record has the Block's start state recorded on it. *)
timeStepStartsEvery(mem, inSeqs) ==
    LET in1 == firstBatch(mem, inSeqs)
        h   == headInput(mem, in1)
    IN  IF Len(in1) = 0
        THEN [memory |-> mem, ret |-> <<>>, panic |-> FALSE]
        ELSE IF h.panic
        THEN [memory |-> mem, ret |-> <<>>, panic |-> TRUE]
        ELSE [memory |-> Append(mem,
                            [StartState |-> StartState,
                             Output     |-> Batch(h.input),
                             InStates   |-> h.input.States,
                             InSeqs     |-> in1,
                             serial     |-> nextSerial(mem)]),
              ret    |-> removeFirst(in1),
              panic  |-> FALSE]

(* seqProp.TimeStep on a session whose memory is mem: the memory after the *)
(* call, the batch returned (nil is the empty batch) and whether the call  *)
(* panicked.                                                               *)
timeStep(mem, inSeqs) ==
    LET in1 == firstBatch(mem, inSeqs)
        h   == headInput(mem, in1)
    IN  IF Len(in1) = 0
        THEN [memory |-> mem, ret |-> <<>>, panic |-> FALSE]
        ELSE IF h.panic
        THEN [memory |-> mem, ret |-> <<>>, panic |-> TRUE]
        ELSE [memory |-> Append(mem,
                            [StartState |-> IF Len(mem) = 0 THEN StartState ELSE NilVar,
                             Output     |-> Batch(h.input),
                             InStates   |-> h.input.States,
                             InSeqs     |-> in1,
                             serial     |-> nextSerial(mem)]),
              ret    |-> removeFirst(in1),
              panic  |-> FALSE]

(* seqRProp.TimeStep. *)
timeStepR(mem, inSeqs) ==
    LET in1 == firstBatch(mem, inSeqs)
        h   == headInputR(mem, in1)
    IN  IF Len(in1) = 0
        THEN [memory |-> mem, ret |-> <<>>, panic |-> FALSE]
        ELSE IF h.panic
        THEN [memory |-> mem, ret |-> <<>>, panic |-> TRUE]
        ELSE [memory |-> Append(mem,
                            [StartState |-> IF Len(mem) = 0 THEN StartStateR ELSE NilVar,
                             Output     |-> BatchR(h.input),
                             InStates   |-> h.input.States,
                             InSeqs     |-> in1,
                             serial     |-> nextSerial(mem)]),
              ret    |-> removeFirst(in1),
              panic  |-> FALSE]

(* What the session's caller may pass: the batch the last TimeStep         *)
(* returned, and that batch with a lane added, dropped or replaced.        *)
CallerBatches ==
    {batch, <<>>}
    \cup {Append(batch, SampleOf(1)) : x \in {y \in {1} : Len(batch) < MaxLanes}}
    \cup {SubSeq(batch, 1, Len(batch) - 1) : x \in {y \in {1} : Len(batch) > 0}}
    \cup {[batch EXCEPT ![Len(batch)] = SampleOf(n)] :
             n \in {m \in {0, 1} : Len(batch) > 0}}

noGradient ==
    /\ g' = EmptyMap
    /\ rg' = EmptyMap
    /\ g0' = EmptyMap
    /\ rg0' = EmptyMap
    /\ gradCalls' = <<>>
    /\ props' = <<>>

unrollVars == <<seqs, t, res, calls, upstream, upstreamR, stateUpstreams,
                stateRUpstreams, gt>>

(* Whether the session has been emptied by Truncate(0) and has recorded    *)
(* nothing since.                                                          *)
resetNow ==
    /\ memory = <<>>
    /\ \/ op.reset
       \/ op.name = "Truncate" /\ op.n = 0 /\ op.before # <<>>

(* The history once the caller has passed another batch than the one it   *)
(* was returned: nothing more is kept of it.                               *)
BrokenRun == [NoRun EXCEPT !.steps = 1, !.faithful = FALSE]

runAfterTimeStep(inSeqs, r) ==
    IF op.run.steps = 0
    THEN [NoRun EXCEPT !.first = inSeqs,
                       !.steps = IF Len(r.memory) > Len(memory) THEN 1 ELSE 0]
    ELSE IF op.run.faithful /\ inSeqs = batch /\ ~r.panic
    THEN [op.run EXCEPT !.steps = IF Len(r.memory) > Len(memory) THEN @ + 1 ELSE @]
    ELSE BrokenRun

runAfterTruncate(n) ==
    IF op.run.faithful
    THEN [op.run EXCEPT !.emptied = @ \/ (n = 0 /\ memory # <<>>)]
    ELSE op.run

(* seqProp.TimeStep. *)
TimeStep ==
    /\ kind = "seqProp"
    /\ pc = "ready"
    /\ \E inSeqs \in CallerBatches :
          LET r == timeStep(memory, inSeqs)
          IN  /\ memory' = r.memory
              /\ batch' = r.ret
              /\ pc' = IF r.panic THEN "panicked" ELSE pc
              /\ op' = [NoOp EXCEPT !.name = "TimeStep", !.inSeqs = inSeqs,
                                    !.before = memory, !.ret = r.ret,
                                    !.panic = r.panic, !.reset = resetNow,
                                    !.run = runAfterTimeStep(inSeqs, r)]
    /\ noGradient
    /\ UNCHANGED <<kind, unrollVars, seqFuncVars>>

(* seqRProp.TimeStep. *)
TimeStepR ==
    /\ kind = "seqRProp"
    /\ pc = "ready"
    /\ \E inSeqs \in CallerBatches :
          LET r == timeStepR(memory, inSeqs)
          IN  /\ memory' = r.memory
              /\ batch' = r.ret
              /\ pc' = IF r.panic THEN "panicked" ELSE pc
              /\ op' = [NoOp EXCEPT !.name = "TimeStep", !.inSeqs = inSeqs,
                                    !.before = memory, !.ret = r.ret,
                                    !.panic = r.panic, !.reset = resetNow,
                                    !.run = runAfterTimeStep(inSeqs, r)]
    /\ noGradient
    /\ UNCHANGED <<kind, unrollVars, seqFuncVars>>

MemoryCount(mem) == Len(mem)

(* Mutant: the oldest n records are the ones kept. *)
truncateOldest(mem, n) == IF MemoryCount(mem) - n <= 0 THEN mem ELSE SubSeq(mem, 1, n)

(* Mutant: a truncation never removes the newest record. *)
truncateKeepsOne(mem, n) ==
    IF MemoryCount(mem) - n <= 0 THEN mem
    ELSE SubSeq(mem, Len(mem) - (IF n = 0 THEN 1 ELSE n) + 1, Len(mem))

(* Mutant: the oldest record kept inherits the start state of the oldest   *)
(* record there was.                                                       *)
truncateCarriesStart(mem, n) ==
    LET removeCount == MemoryCount(mem) - n
        kept        == SubSeq(mem, removeCount + 1, Len(mem))
    IN  IF removeCount <= 0 THEN mem
        ELSE [i \in 1..Len(kept) |->
                IF i = 1 THEN [kept[1] EXCEPT !.StartState = mem[1].StartState]
                ELSE kept[i]]

(* The memory after seqProp.Truncate(n): the copy to the front, the        *)
(* entries set to nil and the reslice.                                     *)
truncate(mem, n) ==
    LET removeCount == MemoryCount(mem) - n
        copied == [i \in 1..Len(mem) |->
                     IF i <= Len(mem) - removeCount THEN mem[i + removeCount] ELSE mem[i]]
        niled  == [i \in 1..Len(mem) |->
                     IF i > n /\ i <= n + removeCount THEN NilStep ELSE copied[i]]
    IN  IF removeCount <= 0 THEN mem ELSE SubSeq(niled, 1, n)

(* seqProp.Truncate. *)
Truncate ==
    /\ kind = "seqProp"
    /\ pc = "ready"
    /\ \E n \in 0..MaxLen :
          /\ memory' = truncate(memory, n)
          /\ op' = [NoOp EXCEPT !.name = "Truncate", !.n = n, !.before = memory,
                                !.reset = resetNow, !.run = runAfterTruncate(n)]
    /\ noGradient
    /\ UNCHANGED <<pc, kind, batch, unrollVars, seqFuncVars>>

(* seqRProp.Truncate. *)
TruncateR ==
    /\ kind = "seqRProp"
    /\ pc = "ready"
    /\ \E n \in 0..MaxLen :
          /\ memory' = truncate(memory, n)
          /\ op' = [NoOp EXCEPT !.name = "Truncate", !.n = n, !.before = memory,
                                !.reset = resetNow, !.run = runAfterTruncate(n)]
    /\ noGradient
    /\ UNCHANGED <<pc, kind, batch, unrollVars, seqFuncVars>>

MaxHead == 2

MaxTail == 1

(* Mutant: the window of the replay leaves the tail out. *)
lowIdxHeadOnly(M, headSize, tailSize) == IF M - headSize < 0 THEN 0 ELSE M - headSize

(* BackPropagate's lowIdx. *)
lowIdxOf(M, headSize, tailSize) ==
    IF M - (headSize + tailSize) < 0 THEN 0 ELSE M - (headSize + tailSize)

RECURSIVE setAll(_, _, _)
setAll(gm, vs, vec) ==
    IF vs = <<>> THEN gm ELSE setAll(mapSet(gm, Head(vs).id, vec), Tail(vs), vec)

(* Mutant: the first incoming state's entry is left in the map. *)
deleteAllButFirst(gm, vs) ==
    [x \in DOMAIN gm \ {vs[k].id : k \in 2..Len(vs)} |-> gm[x]]

RECURSIVE deleteAll(_, _)
deleteAll(gm, vs) ==
    IF vs = <<>> THEN gm ELSE deleteAll(mapDelete(gm, Head(vs).id), Tail(vs))

(* The second half of an iteration of seqProp.BackPropagate's loop, on    *)
(* record i (Go's index): back is what the closure's Gradient left.  st    *)
(* holds upstream.States, the maps, the log of the closures' calls and     *)
(* whether no call has panicked.                                           *)
afterGradient(mem, i, st, insert, up, g1, back) ==
    LET rec        == mem[i + 1]
        stateGrads == IF insert
                      THEN [k \in 1..Len(rec.InStates) |-> back.g[rec.InStates[k].id]]
                      ELSE <<>>
    IN  IF ~back.ok THEN [st EXCEPT !.ok = FALSE, !.g = g1]
        ELSE [States  |-> IF Len(stateGrads) > 0
                          THEN IF i > 0
                               THEN injectDiscontinued(mem[i].InSeqs, stateGrads,
                                                       StateSize)
                               ELSE stateGrads
                          ELSE st.States,
              RStates |-> Nil,
              g       |-> IF Len(stateGrads) > 0 THEN deleteAll(back.g, rec.InStates)
                          ELSE back.g,
              rg      |-> st.rg,
              calls   |-> Append(st.calls,
                              [t |-> i, up |-> up, keys |-> DOMAIN g1,
                               rkeys |-> DOMAIN st.rg, stateGrads |-> stateGrads]),
              ok      |-> TRUE]

(* The first half: the upstream, the temporaries and the closure's call. *)
replayRecord(mem, i, lowIdx, lowHead, getInitialState, st) ==
    LET rec    == mem[i + 1]
        outs   == IF i >= lowHead
                  THEN [lane \in 1..Len(Outputs(rec.Output)) |->
                          costFuncDeriv(rec.InSeqs[lane].Outputs[1],
                                        Outputs(rec.Output)[lane])]
                  ELSE Nil
        insert == i > lowIdx \/ getInitialState
        g1     == IF insert THEN setAll(st.g, rec.InStates, Zero(StateSize))
                  ELSE st.g
        up     == [emptyUpstream EXCEPT !.Outputs = outs, !.States = st.States]
    IN  afterGradient(mem, i, st, insert, up, g1, blockGradient(rec.Output, up, g1))

(* seqProp.BackPropagate's loop from record i down to lowIdx. *)
RECURSIVE backPropagateFrom(_, _, _, _, _, _)
backPropagateFrom(mem, i, lowIdx, lowHead, getInitialState, st) ==
    IF i < lowIdx \/ ~st.ok THEN st
    ELSE backPropagateFrom(mem, i - 1, lowIdx, lowHead, getInitialState,
                           replayRecord(mem, i, lowIdx, lowHead, getInitialState, st))

(* The second half of an iteration of seqRProp.BackPropagate's loop. *)
afterRGradient(mem, i, st, insert, up, g1, rg1, back) ==
    LET rec         == mem[i + 1]
        stateGrads  == IF insert
                       THEN [k \in 1..Len(rec.InStates) |-> back.g[rec.InStates[k].id]]
                       ELSE <<>>
        stateRGrads == IF insert
                       THEN [k \in 1..Len(rec.InStates) |-> back.rg[rec.InStates[k].id]]
                       ELSE <<>>
        del         == Len(stateGrads) > 0
    IN  IF ~back.ok THEN [st EXCEPT !.ok = FALSE, !.g = g1, !.rg = rg1]
        ELSE [States  |-> IF del
                          THEN IF i > 0
                               THEN injectDiscontinued(mem[i].InSeqs, stateGrads,
                                                       StateSize)
                               ELSE stateGrads
                          ELSE st.States,
              RStates |-> IF del
                          THEN IF i > 0
                               THEN injectDiscontinued(mem[i].InSeqs, stateRGrads,
                                                       StateSize)
                               ELSE stateRGrads
                          ELSE st.RStates,
              g       |-> IF del THEN deleteAll(back.g, rec.InStates) ELSE back.g,
              rg      |-> IF del THEN deleteAll(back.rg, rec.InStates) ELSE back.rg,
              calls   |-> Append(st.calls,
                              [t |-> i, up |-> up, keys |-> DOMAIN g1,
                               rkeys |-> DOMAIN rg1, stateGrads |-> stateGrads]),
              ok      |-> TRUE]

(* The first half of an iteration of seqRProp.BackPropagate's loop. *)
replayRecordR(mem, i, lowIdx, lowHead, getInitialState, st) ==
    LET rec    == mem[i + 1]
        rout   == ROutputs(rec.Output)
        outs   == IF i >= lowHead
                  THEN [lane \in 1..Len(Outputs(rec.Output)) |->
                          costFuncDeriv(rec.InSeqs[lane].Outputs[1],
                                        Outputs(rec.Output)[lane])]
                  ELSE Nil
        routs  == IF i >= lowHead
                  THEN [lane \in 1..Len(Outputs(rec.Output)) |->
                          costFuncRDeriv(rec.InSeqs[lane].Outputs[1],
                                         Outputs(rec.Output)[lane], rout[lane])]
                  ELSE Nil
        insert == i > lowIdx \/ getInitialState
        g1     == IF insert THEN setAll(st.g, rec.InStates, Zero(StateSize))
                  ELSE st.g
        rg1    == IF insert THEN setAll(st.rg, rec.InStates, Zero(StateSize))
                  ELSE st.rg
        up     == [Outputs |-> outs, States |-> st.States,
                   ROutputs |-> routs, RStates |-> st.RStates]
    IN  afterRGradient(mem, i, st, insert, up, g1, rg1,
                       blockRGradient(rec.Output, up, rg1, g1))

(* seqRProp.BackPropagate's loop from record i down to lowIdx. *)
RECURSIVE backPropagateRFrom(_, _, _, _, _, _)
backPropagateRFrom(mem, i, lowIdx, lowHead, getInitialState, st) ==
    IF i < lowIdx \/ ~st.ok THEN st
    ELSE backPropagateRFrom(mem, i - 1, lowIdx, lowHead, getInitialState,
                            replayRecordR(mem, i, lowIdx, lowHead, getInitialState, st))

(* BackPropagate's last loop: the start state's propagations. *)
RECURSIVE startStatePass(_, _, _)
startStatePass(sUp, k, acc) ==
    IF k > Len(sUp) THEN acc
    ELSE IF sUp[k] # Nil
         THEN startStatePass(sUp, k + 1,
                  [acc EXCEPT !.g = propagateVar(@, StartState.id, sUp[k]),
                              !.props = Append(@, [to |-> StartState.id,
                                                   up |-> sUp[k]])])
         ELSE startStatePass(sUp, k + 1, acc)

RECURSIVE startStatePassR(_, _, _, _)
startStatePassR(sUp, sRUp, k, acc) ==
    IF k > Len(sUp) THEN acc
    ELSE IF sUp[k] # Nil
         THEN startStatePassR(sUp, sRUp, k + 1,
                  [acc EXCEPT !.g = propagateVar(@, StartStateR.id, sUp[k]),
                              !.rg = propagateVar(@, StartStateR.id, sRUp[k]),
                              !.props = Append(@, [to |-> StartStateR.id,
                                                   up |-> sUp[k], upR |-> sRUp[k]])])
         ELSE startStatePassR(sUp, sRUp, k + 1, acc)

(* Mutant: the last loop runs whether or not the lowest record has a       *)
(* start state.                                                            *)
afterLoopAlways(getInitialState, st) ==
    IF st.ok
    THEN startStatePass(st.States, 1,
             [g |-> st.g, rg |-> st.rg, calls |-> st.calls, props |-> <<>>,
              ok |-> TRUE])
    ELSE [g |-> st.g, rg |-> st.rg, calls |-> st.calls, props |-> <<>>, ok |-> st.ok]

(* What seqProp.BackPropagate leaves once its loop has ended in st. *)
afterLoop(getInitialState, st) ==
    IF st.ok /\ getInitialState
    THEN startStatePass(st.States, 1,
             [g |-> st.g, rg |-> st.rg, calls |-> st.calls, props |-> <<>>,
              ok |-> TRUE])
    ELSE [g |-> st.g, rg |-> st.rg, calls |-> st.calls, props |-> <<>>, ok |-> st.ok]

afterLoopR(getInitialState, st) ==
    IF st.ok /\ getInitialState
    THEN startStatePassR(st.States, st.RStates, 1,
             [g |-> st.g, rg |-> st.rg, calls |-> st.calls, props |-> <<>>,
              ok |-> TRUE])
    ELSE [g |-> st.g, rg |-> st.rg, calls |-> st.calls, props |-> <<>>, ok |-> st.ok]

(* seqProp.BackPropagate on memory mem with the caller's map gm. *)
backPropagate(mem, gm, headSize, tailSize) ==
    LET M       == MemoryCount(mem)
        lowIdx  == lowIdxOf(M, headSize, tailSize)
        lowHead == M - headSize
        getInitialState == mem[lowIdx + 1].StartState # NilVar
        st0     == [States |-> Nil, RStates |-> Nil, g |-> gm, rg |-> EmptyMap,
                    calls |-> <<>>, ok |-> TRUE]
    IN  IF headSize = 0 \/ M = 0
        THEN [g |-> gm, rg |-> EmptyMap, calls |-> <<>>, props |-> <<>>, ok |-> TRUE]
        ELSE afterLoop(getInitialState,
                       backPropagateFrom(mem, M - 1, lowIdx, lowHead,
                                         getInitialState, st0))

(* seqRProp.BackPropagate. *)
backPropagateR(mem, gm, rgm, headSize, tailSize) ==
    LET M       == MemoryCount(mem)
        lowIdx  == lowIdxOf(M, headSize, tailSize)
        lowHead == M - headSize
        getInitialState == mem[lowIdx + 1].StartState # NilVar
        st0     == [States |-> Nil, RStates |-> Nil, g |-> gm, rg |-> rgm,
                    calls |-> <<>>, ok |-> TRUE]
    IN  IF headSize = 0 \/ M = 0
        THEN [g |-> gm, rg |-> rgm, calls |-> <<>>, props |-> <<>>, ok |-> TRUE]
        ELSE afterLoopR(getInitialState,
                        backPropagateRFrom(mem, M - 1, lowIdx, lowHead,
                                           getInitialState, st0))

(* The map the session's caller passes: W and, when the start state is     *)
(* trained, the start state.                                               *)
sessionMap(startIn) == callerMap(<<>>, {}, startIn)

(* What a BackPropagate call that returned r leaves to its caller. *)
backPropagateReturns(headSize, tailSize, r) ==
    /\ g' = r.g
    /\ rg' = r.rg
    /\ gradCalls' = r.calls
    /\ props' = r.props
    /\ pc' = IF r.ok THEN pc ELSE "panicked"
    /\ op' = [NoOp EXCEPT !.name = "BackPropagate", !.headSize = headSize,
                          !.tailSize = tailSize, !.before = memory,
                          !.panic = ~r.ok, !.reset = resetNow, !.run = op.run]

(* seqProp.BackPropagate.  The call leaves the session as it was, so the   *)
(* caller's next BackPropagate is taken after a TimeStep or a Truncate.    *)
BackPropagate ==
    /\ kind = "seqProp"
    /\ pc = "ready"
    /\ op.name # "BackPropagate"
    /\ \E headSize \in 0..MaxHead, tailSize \in 0..MaxTail, startIn \in BOOLEAN :
          /\ g0' = sessionMap(startIn)
          /\ rg0' = EmptyMap
          /\ backPropagateReturns(headSize, tailSize,
                 backPropagate(memory, sessionMap(startIn), headSize, tailSize))
    /\ UNCHANGED <<kind, memory, batch, unrollVars, seqFuncVars>>

(* seqRProp.BackPropagate. *)
BackPropagateR ==
    /\ kind = "seqRProp"
    /\ pc = "ready"
    /\ op.name # "BackPropagate"
    /\ \E headSize \in 0..MaxHead, tailSize \in 0..MaxTail, startIn \in BOOLEAN :
          /\ g0' = sessionMap(startIn)
          /\ rg0' = sessionMap(startIn)
          /\ backPropagateReturns(headSize, tailSize,
                 backPropagateR(memory, sessionMap(startIn), sessionMap(startIn),
                                headSize, tailSize))
    /\ UNCHANGED <<kind, memory, batch, unrollVars, seqFuncVars>>

(* A new session of either form, and the batch its caller starts from. *)
InitSession ==
    /\ kind \in {"seqProp", "seqRProp"}
    /\ memory = <<>>
    /\ batch \in SampleBatches
    /\ op = NoOp
    /\ pc = "ready"
    /\ seqs = <<>>
    /\ t = 0
    /\ res = Nil
    /\ calls = <<>>
    /\ upstream = Nil
    /\ upstreamR = Nil
    /\ g = EmptyMap
    /\ rg = EmptyMap
    /\ g0 = EmptyMap
    /\ rg0 = EmptyMap
    /\ stateUpstreams = Nil
    /\ stateRUpstreams = Nil
    /\ gt = 0
    /\ gradCalls = <<>>
    /\ props = <<>>
    /\ funcs = NoFuncs
    /\ ret = Nil

NextSession ==
    \/ TimeStep
    \/ TimeStepR
    \/ Truncate
    \/ TruncateR
    \/ BackPropagate
    \/ BackPropagateR

(* Every sequence of TimeStep, Truncate and BackPropagate calls on a       *)
(* session of either form, within the bounds.                              *)
SpecSession == InitSession /\ [][NextSession]_vars

(* Unrollings and sessions side by side: a behaviour is either an         *)
(* unrolling of a batch or the calls made on one session.                  *)
InitLanes == InitGrad \/ InitSession

NextLanes == NextUnroll \/ NextSession

SpecLanes == InitLanes /\ [][NextLanes]_vars

----------------------------------------------------------------------------
(* Bidirectional: a Forward, a Backward and an Output SeqFunc.             *)

MaxWidth == 2

(* A delegate: a SeqFunc of some output width, that may or may not be an   *)
(* sgd.Learner and a serializer.Serializer.                                *)
SeqFuncOf(name, index, width, learner, serializer) ==
    [name |-> name, index |-> index, width |-> width,
     learner |-> learner, serializer |-> serializer]

(* What the delegate has taken in of a lane up to its k-th input: every    *)
(* input changes it, so that it depends on the order of the inputs.        *)
RECURSIVE carried(_, _)
carried(in, k) ==
    IF k = 0 THEN 0 ELSE (2 * carried(in, k - 1) + VecSum(in[k].Vector) + 1) % 3

RECURSIVE carriedR(_, _)
carriedR(in, k) ==
    IF k = 0 THEN 0 ELSE (2 * carriedR(in, k - 1) + VecSum(in[k].ROutputVec)) % 3

(* The delegate's BatchSeqs: the batch it was given and its OutputSeqs. *)
seqFuncBatchSeqs(f, in) ==
    [In       |-> in,
     Outputs  |-> [l \in 1..Len(in) |-> [k \in 1..Len(in[l]) |->
                     [j \in 1..f.width |-> (f.index + j + carried(in[l], k)) % 3]]],
     ROutputs |-> Nil]

(* The delegate's BatchSeqsR: with its ROutputSeqs. *)
seqFuncBatchSeqsR(f, in) ==
    [In       |-> in,
     Outputs  |-> [l \in 1..Len(in) |-> [k \in 1..Len(in[l]) |->
                     [j \in 1..f.width |-> (f.index + j + carried(in[l], k)) % 3]]],
     ROutputs |-> [l \in 1..Len(in) |-> [k \in 1..Len(in[l]) |->
                     [j \in 1..f.width |-> (j * carriedR(in[l], k)) % 3]]]]

(* The upstream of a lane from its k-th time on, summed. *)
RECURSIVE upstreamFrom(_, _)
upstreamFrom(up, k) ==
    IF k > Len(up) THEN 0 ELSE VecSum(up[k]) + upstreamFrom(up, k + 1)

(* The place of the input with identity id in the batch in. *)
placeOf(in, id) ==
    CHOOSE p \in UNION {{<<l, k>> : k \in 1..Len(in[l])} : l \in 1..Len(in)} :
       in[p[1]][p[2]].id = id

inputIds(in) == UNION {{in[l][k].id : k \in 1..Len(in[l])} : l \in 1..Len(in)}

(* The delegate's Gradient: the gradient of every input of the batch that  *)
(* has an entry in g is added to the entry.                                *)
seqFuncGradient(r, up, gm) ==
    [id \in DOMAIN gm |->
       IF id \in inputIds(r.In)
       THEN VecAdd(gm[id],
                   [j \in 1..Len(gm[id]) |->
                      (j + upstreamFrom(up[placeOf(r.In, id)[1]],
                                        placeOf(r.In, id)[2])) % 3])
       ELSE gm[id]]

(* The delegate's RGradient, on rg. *)
seqFuncRGradient(r, up, upR, rgm) ==
    [id \in DOMAIN rgm |->
       IF id \in inputIds(r.In)
       THEN VecAdd(rgm[id],
                   [j \in 1..Len(rgm[id]) |->
                      (2 * j + upstreamFrom(up[placeOf(r.In, id)[1]],
                                            placeOf(r.In, id)[2])
                       + upstreamFrom(upR[placeOf(r.In, id)[1]],
                                      placeOf(r.In, id)[2])) % 3])
       ELSE rgm[id]]

(* reverseInputSeqs and reverseInputRSeqs: a new batch, res, is written;   *)
(* the batch passed, seqs, is only read.                                   *)
reverseInputSeqs(s) ==
    [seqs |-> s,
     res  |-> [i \in 1..Len(s) |-> [j \in 1..Len(s[i]) |-> s[i][Len(s[i]) - j + 1]]]]

reverseInputRSeqs(s) ==
    [seqs |-> s,
     res  |-> [i \in 1..Len(s) |-> [j \in 1..Len(s[i]) |-> s[i][Len(s[i]) - j + 1]]]]

JoinedId(lane, time) == <<"joined", time, lane>>

(* Mutant: the backward outputs are joined in the order Backward gave them. *)
joinedVarsUnaligned(forwSeqs, backSeqs) ==
    [lane \in 1..Len(forwSeqs) |->
        [time \in 1..Len(forwSeqs[lane]) |->
            Variable(JoinedId(lane, time - 1),
                     forwSeqs[lane][time] \o backSeqs[lane][time])]]

(* BatchSeqs's joinedVars: per lane and time the forward entry followed by *)
(* the backward entry of the mirrored index.                               *)
joinedVars(forwSeqs, backSeqs) ==
    [lane \in 1..Len(forwSeqs) |->
        [time \in 1..Len(forwSeqs[lane]) |->
            Variable(JoinedId(lane, time - 1),
                     forwSeqs[lane][time]
                        \o backSeqs[lane][Len(forwSeqs[lane]) - time + 1])]]

(* BatchSeqsR's joinedResults: the joined variables with the R vectors     *)
(* joined in the same way.                                                 *)
joinedRResults(forwSeqs, backSeqs, forwSeqsR, backSeqsR) ==
    [lane \in 1..Len(forwSeqs) |->
        [time \in 1..Len(forwSeqs[lane]) |->
            RVariable(JoinedId(lane, time - 1),
                      forwSeqs[lane][time]
                         \o backSeqs[lane][Len(forwSeqs[lane]) - time + 1],
                      forwSeqsR[lane][time]
                         \o backSeqsR[lane][Len(forwSeqs[lane]) - time + 1])]]

(* Bidirectional.BatchSeqs: the bidirectionalResult. *)
bidirBatchSeqs(b, s, rev) ==
    LET forwardOut  == seqFuncBatchSeqs(b.Forward, s)
        backwardOut == seqFuncBatchSeqs(b.Backward, rev)
        joined      == joinedVars(forwardOut.Outputs, backwardOut.Outputs)
    IN  [ForwardOut  |-> forwardOut,
         BackwardOut |-> backwardOut,
         Joined      |-> joined,
         Out         |-> seqFuncBatchSeqs(b.Output, joined)]

(* Bidirectional.BatchSeqsR: the bidirectionalRResult. *)
bidirBatchSeqsR(b, s, rev) ==
    LET forwardOut  == seqFuncBatchSeqsR(b.Forward, s)
        backwardOut == seqFuncBatchSeqsR(b.Backward, rev)
        joined      == joinedRResults(forwardOut.Outputs, backwardOut.Outputs,
                                      forwardOut.ROutputs, backwardOut.ROutputs)
    IN  [ForwardOut  |-> forwardOut,
         BackwardOut |-> backwardOut,
         Joined      |-> joined,
         Out         |-> seqFuncBatchSeqsR(b.Output, joined)]

(* The delegates' BatchSeqs calls of a result, in the order they were made. *)
delegateCalls(r) ==
    << [fn |-> "Forward",  in |-> r.ForwardOut.In],
       [fn |-> "Backward", in |-> r.BackwardOut.In],
       [fn |-> "Output",   in |-> r.Out.In] >>

BidirBatchSeqs ==
    /\ pc = "idle"
    /\ LET rev == reverseInputSeqs(seqs)
       IN  /\ res' = bidirBatchSeqs(funcs, seqs, rev.res)
           /\ seqs' = rev.seqs
    /\ calls' = delegateCalls(res')
    /\ pc' = "joined"
    /\ UNCHANGED <<t, upstream, upstreamR, g, rg, g0, rg0, stateUpstreams,
                   stateRUpstreams, gt, gradCalls, props, sessVars, seqFuncVars>>

BidirBatchSeqsR ==
    /\ pc = "idle"
    /\ LET rev == reverseInputRSeqs(seqs)
       IN  /\ res' = bidirBatchSeqsR(funcs, seqs, rev.res)
           /\ seqs' = rev.seqs
    /\ calls' = delegateCalls(res')
    /\ pc' = "joinedR"
    /\ UNCHANGED <<t, upstream, upstreamR, g, rg, g0, rg0, stateUpstreams,
                   stateRUpstreams, gt, gradCalls, props, sessVars, seqFuncVars>>

RECURSIVE seqOutputSize(_)
seqOutputSize(outSeqs) ==
    IF outSeqs = <<>> THEN 0
    ELSE IF Len(Head(outSeqs)) > 0 THEN Len(Head(outSeqs)[1])
         ELSE seqOutputSize(Tail(outSeqs))

(* The entries of the joined variables: set to zero before Output's       *)
(* gradient and deleted after it.                                          *)
zeroJoined(joined, gm) ==
    [id \in DOMAIN gm \cup inputIds(joined) |->
        IF id \in inputIds(joined)
        THEN Zero(Len(joined[placeOf(joined, id)[1]][placeOf(joined, id)[2]].Vector))
        ELSE gm[id]]

(* Mutant: only the first lane's joined variables are deleted. *)
deleteJoinedFirstLane(joined, gm) ==
    IF joined = <<>> THEN gm
    ELSE [id \in DOMAIN gm \ inputIds(<<joined[1]>>) |-> gm[id]]

deleteJoined(joined, gm) == [id \in DOMAIN gm \ inputIds(joined) |-> gm[id]]

(* Mutant: the joined gradient is split at the backward sub-output width. *)
forwLenOfBackward(r) == seqOutputSize(r.BackwardOut.Outputs)

(* forwLen of Gradient and RGradient. *)
forwLenOf(r) == seqOutputSize(r.ForwardOut.Outputs)

(* Gradient's subForw of every lane. *)
forwUpstreamOf(joined, gm, forwLen) ==
    [lane \in 1..Len(joined) |->
        [time \in 1..Len(joined[lane]) |->
            SubSeq(gm[joined[lane][time].id], 1, forwLen)]]

(* Gradient's subBack of every lane: the entry of a time is the rest of    *)
(* the joined gradient of the mirrored time.                               *)
backUpstreamOf(joined, gm, forwLen) ==
    [lane \in 1..Len(joined) |->
        [time \in 1..Len(joined[lane]) |->
            LET from == gm[joined[lane][Len(joined[lane]) - time + 1].id]
            IN  SubSeq(from, forwLen + 1, Len(from))]]

(* A delegate's gradient call: the upstreams it was passed, the keys of g  *)
(* when it was called, and g and rg as it left them.                       *)
gradientCall(fn, up, upR, keys, gAfter, rgAfter) ==
    [fn |-> fn, up |-> up, upR |-> upR, keys |-> keys, g |-> gAfter, rg |-> rgAfter]

(* Gradient from the split on: Forward's and Backward's gradients. *)
splitGradient(r, first, g2, forwUpstream, backUpstream, gF) ==
    [g     |-> seqFuncGradient(r.BackwardOut, backUpstream, gF),
     rg    |-> Nil,
     calls |-> << first,
                  gradientCall("Forward", forwUpstream, Nil, DOMAIN g2, gF, Nil),
                  gradientCall("Backward", backUpstream, Nil, DOMAIN gF,
                               seqFuncGradient(r.BackwardOut, backUpstream, gF),
                               Nil) >>]

forwardGradient(r, first, g2, forwUpstream, backUpstream) ==
    splitGradient(r, first, g2, forwUpstream, backUpstream,
                  seqFuncGradient(r.ForwardOut, forwUpstream, g2))

(* Gradient after Output's gradient returned gOut. *)
afterOutGradient(r, up, g1, gOut) ==
    forwardGradient(r, gradientCall("Output", up, Nil, DOMAIN g1, gOut, Nil),
                    deleteJoined(r.Joined, gOut),
                    forwUpstreamOf(r.Joined, gOut, forwLenOf(r)),
                    backUpstreamOf(r.Joined, gOut, forwLenOf(r)))

bidirOutGradient(r, up, g1) ==
    afterOutGradient(r, up, g1, seqFuncGradient(r.Out, up, g1))

(* bidirectionalResult.Gradient. *)
bidirGradient(r, up, gm) == bidirOutGradient(r, up, zeroJoined(r.Joined, gm))

(* RGradient from the split on. *)
splitRGradient(r, first, g2, rg2, fUp, bUp, fUpR, bUpR, gF, rgF) ==
    [g     |-> seqFuncGradient(r.BackwardOut, bUp, gF),
     rg    |-> seqFuncRGradient(r.BackwardOut, bUp, bUpR, rgF),
     calls |-> << first,
                  gradientCall("Forward", fUp, fUpR, DOMAIN g2, gF, rgF),
                  gradientCall("Backward", bUp, bUpR, DOMAIN gF,
                               seqFuncGradient(r.BackwardOut, bUp, gF),
                               seqFuncRGradient(r.BackwardOut, bUp, bUpR, rgF)) >>]

forwardRGradient(r, first, g2, rg2, fUp, bUp, fUpR, bUpR) ==
    splitRGradient(r, first, g2, rg2, fUp, bUp, fUpR, bUpR,
                   seqFuncGradient(r.ForwardOut, fUp, g2),
                   seqFuncRGradient(r.ForwardOut, fUp, fUpR, rg2))

afterOutRGradient(r, up, upR, g1, gOut, rgOut) ==
    forwardRGradient(r, gradientCall("Output", up, upR, DOMAIN g1, gOut, rgOut),
                     deleteJoined(r.Joined, gOut),
                     deleteJoined(r.Joined, rgOut),
                     forwUpstreamOf(r.Joined, gOut, forwLenOf(r)),
                     backUpstreamOf(r.Joined, gOut, forwLenOf(r)),
                     forwUpstreamOf(r.Joined, rgOut, forwLenOf(r)),
                     backUpstreamOf(r.Joined, rgOut, forwLenOf(r)))

bidirOutRGradient(r, up, upR, g1, rg1) ==
    afterOutRGradient(r, up, upR, g1, seqFuncGradient(r.Out, up, g1),
                      seqFuncRGradient(r.Out, up, upR, rg1))

(* bidirectionalRResult.RGradient; a nil g is replaced by an empty one. *)
bidirRGradient(r, up, upR, rgm, gm) ==
    bidirOutRGradient(r, up, upR, zeroJoined(r.Joined, gm), zeroJoined(r.Joined, rgm))

(* What a gradient call that returned r leaves to its caller. *)
bidirGradientReturns(r) ==
    /\ g' = r.g
    /\ gradCalls' = r.calls

bidirRGradientReturns(r) ==
    /\ g' = r.g
    /\ rg' = r.rg
    /\ gradCalls' = r.calls

BidirGradient ==
    /\ pc = "joined"
    /\ \E up \in {upstreamOf(packedLens([PackedOut |-> res.Out.Outputs])),
                   upstreamROf(packedLens([PackedOut |-> res.Out.Outputs]))},
          nonConst \in SUBSET (1..Len(seqs)) :
          /\ upstream' = up
          /\ g0' = callerMap(seqs, nonConst, FALSE)
          /\ bidirGradientReturns(
                 bidirGradient(res, up, callerMap(seqs, nonConst, FALSE)))
    /\ pc' = "gradient"
    /\ UNCHANGED <<seqs, t, res, calls, upstreamR, rg, rg0, stateUpstreams,
                   stateRUpstreams, gt, props, sessVars, seqFuncVars>>

BidirRGradient ==
    /\ pc = "joinedR"
    /\ \E swap \in BOOLEAN, nonConst \in SUBSET (1..Len(seqs)) :
          LET lens == packedLens([PackedOut |-> res.Out.Outputs])
              up   == IF swap THEN upstreamROf(lens) ELSE upstreamOf(lens)
              upR  == IF swap THEN upstreamOf(lens) ELSE upstreamROf(lens)
          IN  /\ upstream' = up
              /\ upstreamR' = upR
              /\ g0' = callerMap(seqs, nonConst, FALSE)
              /\ rg0' = callerMap(seqs, nonConst, FALSE)
              /\ bidirRGradientReturns(
                     bidirRGradient(res, up, upR,
                                    callerMap(seqs, nonConst, FALSE),
                                    callerMap(seqs, nonConst, FALSE)))
    /\ pc' = "rgradient"
    /\ UNCHANGED <<seqs, t, res, calls, stateUpstreams, stateRUpstreams, gt,
                   props, sessVars, seqFuncVars>>

(* The inputs a caller of a SeqFunc passes: per lane and time a variable   *)
(* of its own, with an R vector.                                           *)
InputVar(l, k) == RVariable(InputId(l, k - 1), << k % 3 >>, << (k + l) % 3 >>)

InputBatches ==
    {[l \in 1..Len(lens) |-> [k \in 1..lens[l] |-> InputVar(l, k)]] :
        lens \in SeqsUpTo(0..MaxLen, MaxLanes)}

(* The receivers: delegates of every width up to MaxWidth, all of them     *)
(* learners and serializers.                                               *)
Bidirectionals ==
    {[Forward  |-> SeqFuncOf("Forward", 0, fw, TRUE, TRUE),
      Backward |-> SeqFuncOf("Backward", 1, bw, TRUE, TRUE),
      Output   |-> SeqFuncOf("Output", 2, 1, TRUE, TRUE)] :
        fw \in 1..MaxWidth, bw \in 1..MaxWidth}

InitBidir ==
    /\ seqs \in InputBatches
    /\ funcs \in Bidirectionals
    /\ ret = Nil
    /\ kind = "none"
    /\ memory = <<>>
    /\ batch = <<>>
    /\ op = NoOp
    /\ pc = "idle"
    /\ t = 0
    /\ res = Nil
    /\ calls = <<>>
    /\ upstream = Nil
    /\ upstreamR = Nil
    /\ g = EmptyMap
    /\ rg = EmptyMap
    /\ g0 = EmptyMap
    /\ rg0 = EmptyMap
    /\ stateUpstreams = Nil
    /\ stateRUpstreams = Nil
    /\ gt = 0
    /\ gradCalls = <<>>
    /\ props = <<>>

NextBidir ==
    \/ BidirBatchSeqs
    \/ BidirBatchSeqsR
    \/ BidirGradient
    \/ BidirRGradient

(* A Bidirectional's BatchSeqs or BatchSeqsR on a batch, followed by the   *)
(* gradient of the result.                                                 *)
SpecBidir == InitBidir /\ [][NextBidir]_vars

----------------------------------------------------------------------------
(* Parameters and Serialize of Bidirectional and BlockSeqFunc.             *)

(* The Block of a BlockSeqFunc, which may or may not be an sgd.Learner and *)
(* a serializer.Serializer.                                                *)
BlockOf(learner, serializer) ==
    [name |-> "Block", index |-> 3, width |-> 1,
     learner |-> learner, serializer |-> serializer]

(* l.Parameters() of a delegate that is a Learner: its own variable. *)
parametersOf(x) == << <<"W", 0, x.index>> >>

(* serializer.SerializeSlice and SerializeWithType: the encodings of the   *)
(* objects passed.                                                         *)
SerializeSlice(slice) == [i \in 1..Len(slice) |-> <<"bytes", slice[i].name>>]

SerializeWithType(x) == << <<"bytes", x.name>> >>

(* What a call returned: its data (nil is Nil) and its error (nil is Nil). *)
returned(fn, data, err) == [fn |-> fn, data |-> data, err |-> err]

(* Mutant: the loop stops at the first delegate that is no Learner. *)
RECURSIVE parametersUntilOther(_, _)
parametersUntilOther(xs, acc) ==
    IF xs = <<>> \/ ~Head(xs).learner THEN acc
    ELSE parametersUntilOther(Tail(xs), acc \o parametersOf(Head(xs)))

(* Bidirectional.Parameters' loop over the delegates still to visit. *)
RECURSIVE parametersFrom(_, _)
parametersFrom(xs, acc) ==
    IF xs = <<>> THEN acc
    ELSE IF Head(xs).learner
         THEN parametersFrom(Tail(xs), acc \o parametersOf(Head(xs)))
         ELSE parametersFrom(Tail(xs), acc)

(* Mutant: what was collected before the failure is serialized. *)
RECURSIVE serializeCollected(_, _)
serializeCollected(xs, slice) ==
    IF xs = <<>> THEN returned("Bidirectional.Serialize", SerializeSlice(slice), Nil)
    ELSE IF ~Head(xs).serializer
         THEN returned("Bidirectional.Serialize", SerializeSlice(slice),
                       <<"type cannot be serialized", Head(xs).name>>)
         ELSE serializeCollected(Tail(xs), Append(slice, Head(xs)))

(* Bidirectional.Serialize's loop over the delegates still to visit. *)
RECURSIVE serializeFrom(_, _)
serializeFrom(xs, slice) ==
    IF xs = <<>> THEN returned("Bidirectional.Serialize", SerializeSlice(slice), Nil)
    ELSE IF ~Head(xs).serializer
         THEN returned("Bidirectional.Serialize", Nil,
                       <<"type cannot be serialized", Head(xs).name>>)
         ELSE serializeFrom(Tail(xs), Append(slice, Head(xs)))

(* []SeqFunc{b.Forward, b.Backward, b.Output} *)
delegatesOf(b) == <<b.Forward, b.Backward, b.Output>>

BidirParameters ==
    /\ pc = "idle"
    /\ ret' = returned("Bidirectional.Parameters",
                       parametersFrom(delegatesOf(funcs), Nil), Nil)
    /\ UNCHANGED <<pc, seqs, t, res, calls, upstream, upstreamR, g, rg, g0, rg0,
                   stateUpstreams, stateRUpstreams, gt, gradCalls, props,
                   sessVars, funcs>>

BidirSerialize ==
    /\ pc = "idle"
    /\ ret' = serializeFrom(delegatesOf(funcs), <<>>)
    /\ UNCHANGED <<pc, seqs, t, res, calls, upstream, upstreamR, g, rg, g0, rg0,
                   stateUpstreams, stateRUpstreams, gt, gradCalls, props,
                   sessVars, funcs>>

(* BlockSeqFunc.Parameters. *)
BlockSeqFuncParameters ==
    /\ pc = "idle"
    /\ ret' = returned("BlockSeqFunc.Parameters",
                       IF funcs.Block.learner THEN parametersOf(funcs.Block) ELSE Nil,
                       Nil)
    /\ UNCHANGED <<pc, seqs, t, res, calls, upstream, upstreamR, g, rg, g0, rg0,
                   stateUpstreams, stateRUpstreams, gt, gradCalls, props,
                   sessVars, funcs>>

(* BlockSeqFunc.Serialize. *)
BlockSeqFuncSerialize ==
    /\ pc = "idle"
    /\ ret' = IF ~funcs.Block.serializer
              THEN returned("BlockSeqFunc.Serialize", Nil,
                            <<"type is not a Serializer", funcs.Block.name>>)
              ELSE returned("BlockSeqFunc.Serialize",
                            SerializeWithType(funcs.Block), Nil)
    /\ UNCHANGED <<pc, seqs, t, res, calls, upstream, upstreamR, g, rg, g0, rg0,
                   stateUpstreams, stateRUpstreams, gt, gradCalls, props,
                   sessVars, funcs>>

(* The receivers: a Bidirectional and a BlockSeqFunc whose delegates have  *)
(* every combination of the two capabilities.                              *)
Receivers ==
    {[Forward  |-> SeqFuncOf("Forward", 0, 1, c[1], c[2]),
      Backward |-> SeqFuncOf("Backward", 1, 1, c[3], c[4]),
      Output   |-> SeqFuncOf("Output", 2, 1, c[5], c[6]),
      Block    |-> BlockOf(c[7], c[8])] : c \in [1..8 -> BOOLEAN]}

InitCapability ==
    /\ seqs = <<>>
    /\ funcs \in Receivers
    /\ ret = Nil
    /\ kind = "none"
    /\ memory = <<>>
    /\ batch = <<>>
    /\ op = NoOp
    /\ pc = "idle"
    /\ t = 0
    /\ res = Nil
    /\ calls = <<>>
    /\ upstream = Nil
    /\ upstreamR = Nil
    /\ g = EmptyMap
    /\ rg = EmptyMap
    /\ g0 = EmptyMap
    /\ rg0 = EmptyMap
    /\ stateUpstreams = Nil
    /\ stateRUpstreams = Nil
    /\ gt = 0
    /\ gradCalls = <<>>
    /\ props = <<>>

NextCapability ==
    \/ BidirParameters
    \/ BidirSerialize
    \/ BlockSeqFuncParameters
    \/ BlockSeqFuncSerialize

(* Any sequence of Parameters and Serialize calls on the receivers. *)
SpecCapability == InitCapability /\ [][NextCapability]_vars

----------------------------------------------------------------------------
(* The Block on its own: Batch or BatchR on a BlockInput, then Gradient or *)
(* RGradient of the output on an upstream.                                 *)

(* The BlockInputs passed: up to MaxLanes lanes, each with an input of its *)
(* own and a state of its own.                                             *)
BlockInputs ==
    UNION {{[Inputs |-> [i \in 1..n |->
                           RVariable(<<"input", 0, i>>, << v[i] >>, << 1 - v[i] >>)],
             States |-> [i \in 1..n |->
                           RVariable(<<"state", 0, i>>,
                                     [j \in 1..StateSize |-> (i + j) % 3],
                                     [j \in 1..StateSize |-> (2 * i + j) % 3])]] :
              v \in [1..n -> InVals]} : n \in 1..MaxLanes}

(* One half of an upstream for n lanes of vectors of the given width: nil, *)
(* a vector of that width per lane, or such vectors but for one lane whose *)
(* vector is an entry longer or shorter.                                   *)
HalfUpstreams(n, width, salt) ==
    {Nil}
    \cup {[i \in 1..n |-> [j \in 1..width |-> (i + j + salt) % 3]]}
    \cup {[i \in 1..n |-> [j \in 1..(IF i = bad THEN width + by ELSE width) |->
                              (i + j + salt) % 3]] :
            bad \in 1..n, by \in {0 - 1, 1}}

(* The gradient map of the Block's caller: entries for W and for every     *)
(* input and state of the BlockInput.                                      *)
blockCallerMap(in) ==
    [id \in {ParamId} \cup {in.Inputs[i].id : i \in 1..Len(in.Inputs)}
                      \cup {in.States[i].id : i \in 1..Len(in.States)} |->
        IF id = ParamId THEN <<0>>
        ELSE IF id[1] = "state" THEN Zero(StateSize) ELSE <<0>>]

BlockBatch ==
    /\ pc = "idle"
    /\ \E in \in BlockInputs :
          /\ calls' = <<in>>
          /\ res' = Batch(in)
    /\ pc' = "batched"
    /\ UNCHANGED <<seqs, t, upstream, upstreamR, g, rg, g0, rg0, stateUpstreams,
                   stateRUpstreams, gt, gradCalls, props, sessVars, seqFuncVars>>

BlockBatchR ==
    /\ pc = "idle"
    /\ \E in \in BlockInputs :
          /\ calls' = <<in>>
          /\ res' = BatchR(in)
    /\ pc' = "batchedR"
    /\ UNCHANGED <<seqs, t, upstream, upstreamR, g, rg, g0, rg0, stateUpstreams,
                   stateRUpstreams, gt, gradCalls, props, sessVars, seqFuncVars>>

(* What batcherBlockOutput.Gradient, which returned r, leaves behind. *)
blockGradientReturns(u, r) ==
    /\ upstream' = u
    /\ g' = r.g
    /\ pc' = IF r.ok THEN "blockDone" ELSE "blockPanic"

(* batcherBlockOutput.Gradient. *)
BlockOutputGradient ==
    /\ pc = "batched"
    /\ \E o \in HalfUpstreams(res.LaneCount, outputSize(res), 0),
          s \in HalfUpstreams(res.LaneCount, StateSize, 1) :
          LET u == [emptyUpstream EXCEPT !.Outputs = o, !.States = s]
          IN  /\ blockGradientReturns(u, blockGradient(res, u, blockCallerMap(res.In)))
              /\ gradCalls' = <<joinUpstream(res, s, o)>>
    /\ g0' = blockCallerMap(res.In)
    /\ UNCHANGED <<seqs, t, res, calls, upstreamR, rg, rg0, stateUpstreams,
                   stateRUpstreams, gt, props, sessVars, seqFuncVars>>

blockRGradientReturns(u, r) ==
    /\ upstream' = u
    /\ g' = r.g
    /\ rg' = r.rg
    /\ pc' = IF r.ok THEN "blockDoneR" ELSE "blockPanicR"

(* batcherBlockOutput.RGradient; a half is nil exactly if its R half is. *)
BlockOutputRGradient ==
    /\ pc = "batchedR"
    /\ \E o \in HalfUpstreams(res.LaneCount, outputSize(res), 0),
          s \in HalfUpstreams(res.LaneCount, StateSize, 1),
          ro \in HalfUpstreams(res.LaneCount, outputSize(res), 2),
          rs \in HalfUpstreams(res.LaneCount, StateSize, 0) :
          LET u == [Outputs |-> o, States |-> s, ROutputs |-> ro, RStates |-> rs]
          IN  /\ (o = Nil) = (ro = Nil)
              /\ (s = Nil) = (rs = Nil)
              /\ blockRGradientReturns(u, blockRGradient(res, u, blockCallerMap(res.In),
                                                         blockCallerMap(res.In)))
              /\ gradCalls' = <<joinUpstream(res, s, o), joinUpstream(res, rs, ro)>>
    /\ g0' = blockCallerMap(res.In)
    /\ rg0' = blockCallerMap(res.In)
    /\ UNCHANGED <<seqs, t, res, calls, upstreamR, stateUpstreams,
                   stateRUpstreams, gt, props, sessVars, seqFuncVars>>

InitBlock ==
    /\ seqs = <<>>
    /\ InitCommon

NextBlock ==
    \/ BlockBatch
    \/ BlockBatchR
    \/ BlockOutputGradient
    \/ BlockOutputRGradient

(* A Block's Batch or BatchR, and the gradient of its output. *)
SpecBlock == InitBlock /\ [][NextBlock]_vars

----------------------------------------------------------------------------
(* Properties of the unrolling.                                            *)

RECURSIVE MaxSeqLen(_)
MaxSeqLen(b) == IF b = <<>> THEN 0 ELSE Max(Len(Head(b)), MaxSeqLen(Tail(b)))

LaneList(n) == [l \in 1..n |-> l]

(* The lanes of b with more than k elements, in increasing order. *)
ActiveLanes(b, k) ==
    LET longer(l) == Len(b[l]) > k IN SelectSeq(LaneList(Len(b)), longer)

Unrolled == pc \in {"unrolled", "unrolledR"}

Unrolling == pc \in {"BatchSeqs", "BatchSeqsR"}

(* C1: BatchSeqs and BatchSeqsR call the Block exactly max-sequence-length *)
(* times, the call of time t holding exactly the lanes with more than t    *)
(* elements in increasing lane order and never zero lanes; the loop        *)
(* counter never passes the maximum sequence length, where the exit test   *)
(* succeeds, so the unrolling loop terminates.                             *)
C1_BlockCalledOncePerTimestep ==
    /\ \A k \in 1..Len(calls) :
          LET in     == calls[k]
              active == ActiveLanes(seqs, k - 1)
          IN  /\ Len(in.Inputs) > 0
              /\ Len(in.States) = Len(in.Inputs)
              /\ [i \in 1..Len(in.Inputs) |-> in.Inputs[i].id]
                    = [i \in 1..Len(active) |-> <<"input", k - 1, active[i]>>]
              /\ [i \in 1..Len(in.States) |-> in.States[i].id]
                    = [i \in 1..Len(active) |-> <<"state", k - 1, active[i]>>]
    /\ Unrolling =>
          /\ Len(calls) = t
          /\ t <= MaxSeqLen(seqs)
          /\ t = MaxSeqLen(seqs) =>
                loopBreaks(IF pc = "BatchSeqs" THEN buildStep(seqs, t, res).step
                           ELSE buildStepR(seqs, t, res).step)
    /\ Unrolled => Len(calls) = MaxSeqLen(seqs) /\ t = MaxSeqLen(seqs)

C1_Witness ==
    /\ Unrolled
    /\ Len(seqs) = 2
    /\ Len(seqs[1]) = 1
    /\ Len(seqs[2]) = 3
    /\ Len(calls) = 3
    /\ Len(calls[1].Inputs) = 2
    /\ Len(calls[3].Inputs) = 1

(* C2: after BatchSeqs every lane's packed output has as many entries as   *)
(* the lane's sequence, the entry of time k being the Block output of step *)
(* k at the position that step's LaneToOut records for the lane.           *)
C2_PackedOutputs ==
    Unrolled =>
        /\ Len(res.PackedOut) = Len(seqs)
        /\ \A l \in 1..Len(seqs) :
              /\ Len(res.PackedOut[l]) = Len(seqs[l])
              /\ \A k \in 1..Len(seqs[l]) :
                    LET step == res.Steps[k]
                    IN  /\ l \in DOMAIN step.LaneToOut
                        /\ res.PackedOut[l][k]
                              = Outputs(step.Outputs)[step.LaneToOut[l]]

C2_Witness ==
    /\ pc = "unrolled"
    /\ Len(seqs) = 2
    /\ Len(seqs[1]) = 3
    /\ Len(seqs[2]) = 1
    /\ Len(res.PackedOut[2]) = 1
    /\ DOMAIN res.Steps[1].LaneToOut = {1, 2}
    /\ DOMAIN res.Steps[2].LaneToOut = {1}
    /\ DOMAIN res.Steps[3].LaneToOut = {1}

(* C3: BatchSeqs on a ragged batch gives every lane the packed output that *)
(* BatchSeqs gives that lane alone as a batch of size 1.                   *)
C3_RaggedBatchEquivalence ==
    pc = "unrolled" =>
        \A l \in 1..Len(seqs) :
            res.PackedOut[l] = BatchSeqsOf(<< seqs[l] >>).PackedOut[1]

C3_Witness ==
    /\ pc = "unrolled"
    /\ Len(seqs) = 2
    /\ Len(seqs[1]) = 2
    /\ Len(seqs[2]) = 3
    /\ seqs[1][1] # seqs[2][1]
    /\ res.PackedOut[1] # SubSeq(res.PackedOut[2], 1, 2)

(* The state a lane is in after its first k inputs, when the Block is run  *)
(* on the lane alone from the start state; and its R vector.               *)
RECURSIVE OwnState(_, _)
OwnState(seq, k) ==
    IF k = 0 THEN StartState.Vector
    ELSE LET out == FLane(<< seq[k] >> \o OwnState(seq, k - 1))
         IN  SubSeq(out, Len(out) - StateSize + 1, Len(out))

RECURSIVE OwnStateR(_, _)
OwnStateR(seq, k) ==
    IF k = 0 THEN StartStateR.ROutputVec
    ELSE LET out == FLaneR(<< seq[k] >> \o OwnState(seq, k - 1),
                           << 1 - seq[k] >> \o OwnStateR(seq, k - 1))
         IN  SubSeq(out, Len(out) - StateSize + 1, Len(out))

UnrollingR == pc \in {"BatchSeqsR", "unrolledR"}

(* C19: the incoming state the Block is given for a lane at step t is the  *)
(* start state at t = 0, and at t > 0 the lane's outgoing state of step    *)
(* t-1, at the position step t-1's LaneToOut has for the lane: the state   *)
(* the lane reaches on its own inputs, whichever lanes have dropped out    *)
(* and wherever the lane is in the batch; so is its R vector in            *)
(* BatchSeqsR.                                                             *)
C19_LaneKeepsOwnState ==
    (Unrolling \/ Unrolled) =>
       \A k \in 1..Len(calls) :
          LET active == ActiveLanes(seqs, k - 1)
          IN  \A i \in 1..Len(active) :
                 LET l  == active[i]
                     st == calls[k].States[i]
                 IN  /\ k = 1 => st.Vector = StartState.Vector
                     /\ k > 1 =>
                           st.Vector = States(res.Steps[k - 1].Outputs)
                                          [res.Steps[k - 1].LaneToOut[l]]
                     /\ st.Vector = OwnState(seqs[l], k - 1)
                     /\ UnrollingR => st.ROutputVec = OwnStateR(seqs[l], k - 1)

(* The second lane, alone at the first position of the third step after    *)
(* the first lane dropped out, is given its own state of the second step,  *)
(* which was at the second position and differs from the first lane's.     *)
C19_Witness ==
    /\ Unrolled
    /\ Len(seqs) = 2
    /\ Len(seqs[1]) = 2
    /\ Len(seqs[2]) = 3
    /\ Len(calls) = 3
    /\ Len(calls[3].States) = 1
    /\ calls[3].States[1].Vector = States(res.Steps[2].Outputs)[2]
    /\ States(res.Steps[2].Outputs)[1] # States(res.Steps[2].Outputs)[2]

----------------------------------------------------------------------------
(* Properties of the backward replay.                                      *)

Replaying == pc \in {"Gradient", "RGradient"}

Replayed == pc \in {"done", "doneR"}

GradientCalled == pc \in {"Gradient", "done", "panic"}

RGradientCalled == pc \in {"RGradient", "doneR", "panicR"}

(* The temporaries of the step of time k: the incoming-state variable of   *)
(* every active lane and the input variable of every active lane whose     *)
(* input is not constant.                                                  *)
StepTemporaries(k) ==
    {<<"state", k, l>> : l \in {x \in 1..Len(seqs) : Len(seqs[x]) > k}}
    \cup {<<"input", k, l>> :
            l \in {x \in 1..Len(seqs) : Len(seqs[x]) > k /\ InputId(x, k) \in DOMAIN g0}}

(* C4: Gradient and RGradient leave no temporary entry behind: the keys    *)
(* they insert for a step (present when the step's closure is called) are  *)
(* deleted again, and the key sets of g and rg after the call are those    *)
(* before the call.                                                        *)
C4_NoResidualEntries ==
    /\ (Replaying \/ Replayed) => DOMAIN g = DOMAIN g0 /\ DOMAIN rg = DOMAIN rg0
    /\ \A i \in 1..Len(gradCalls) :
          /\ gradCalls[i].keys = DOMAIN g0 \cup StepTemporaries(gradCalls[i].t)
          /\ gradCalls[i].rkeys = IF RGradientCalled
                                  THEN DOMAIN rg0 \cup StepTemporaries(gradCalls[i].t)
                                  ELSE DOMAIN rg0
          /\ StepTemporaries(gradCalls[i].t) \cap DOMAIN g0 = {}

C4_Witness ==
    /\ pc = "done"
    /\ Len(seqs) = 2
    /\ Len(seqs[1]) = 3
    /\ Len(seqs[2]) = 1
    /\ Len(gradCalls) = 3
    /\ InputId(1, 0) \in DOMAIN g0
    /\ InputId(2, 0) \notin DOMAIN g0
    /\ <<"input", 0, 1>> \in gradCalls[3].keys
    /\ DOMAIN g = DOMAIN g0

ShapeOf(up) == [l \in 1..Len(up) |-> Len(up[l])]

(* C5: Gradient and RGradient panic, with the gradient maps as the caller  *)
(* passed them, whenever an upstream does not hold one sequence per lane,  *)
(* each as long as the lane's packed output.                               *)
C5_UpstreamDimensionsChecked ==
    /\ (GradientCalled /\ ShapeOf(upstream) # packedLens(res)) =>
          pc = "panic" /\ g = g0 /\ rg = rg0 /\ gradCalls = <<>> /\ props = <<>>
    /\ (RGradientCalled /\ (\/ ShapeOf(upstream) # packedLens(res)
                            \/ ShapeOf(upstreamR) # packedLens(res))) =>
          pc = "panicR" /\ g = g0 /\ rg = rg0 /\ gradCalls = <<>> /\ props = <<>>

C5_Witness ==
    /\ pc = "panic"
    /\ Len(seqs) = 2
    /\ Len(upstream) = 2
    /\ Len(res.PackedOut[1]) = 2
    /\ Len(upstream[1]) = 1
    /\ Len(upstream[2]) = Len(res.PackedOut[2])
    /\ g = g0
    /\ StartId \in DOMAIN g

----------------------------------------------------------------------------
(* Properties of the sessions.  op describes the last call on the session: *)
(* its arguments, the memory it found (before), what it returned and       *)
(* whether it panicked.                                                    *)

WithInputs(ss, k) ==
    LET enough(seq) == Len(seq.Inputs) >= k IN SelectSeq(ss, enough)

Consumed(ss) ==
    [i \in 1..Len(WithInputs(ss, 2)) |->
        [Inputs  |-> Tail(WithInputs(ss, 2)[i].Inputs),
         Outputs |-> Tail(WithInputs(ss, 2)[i].Outputs)]]

TimeStepCalled == op.name = "TimeStep"

(* C6: TimeStep on a session with empty memory first drops every sequence  *)
(* without inputs; the record it appends holds the sequences that are      *)
(* left, and for a non-empty batch it returns, in the same relative order, *)
(* every sequence that had at least two inputs without its first input and *)
(* first target, and none of the sequences that had exactly one input.     *)
C6_TimeStepConsumesFirstInputs ==
    /\ (TimeStepCalled /\ op.before = <<>>) =>
          /\ ~op.panic
          /\ IF WithInputs(op.inSeqs, 1) = <<>>
             THEN memory = <<>> /\ op.ret = <<>>
             ELSE /\ Len(memory) = 1
                  /\ memory[1].InSeqs = WithInputs(op.inSeqs, 1)
                  /\ op.ret = Consumed(WithInputs(op.inSeqs, 1))
    /\ (TimeStepCalled /\ op.before # <<>> /\ op.inSeqs # <<>> /\ ~op.panic) =>
          /\ memory = Append(op.before, memory[Len(memory)])
          /\ memory[Len(memory)].InSeqs = op.inSeqs
          /\ op.ret = Consumed(op.inSeqs)

(* A first timestep whose batch holds a sequence without inputs beside one *)
(* with more inputs than one: the first is dropped, the second returned.   *)
C6_Witness ==
    /\ TimeStepCalled
    /\ op.before = <<>>
    /\ Len(op.inSeqs) = 2
    /\ \E l \in 1..2 : Len(op.inSeqs[l].Inputs) = 0
    /\ Len(memory) = 1
    /\ Len(memory[1].InSeqs) = 1
    /\ Len(op.ret) = 1

ContinuingLanes(mem) == Len(WithInputs(mem[Len(mem)].InSeqs, 2))

(* C7: TimeStep on a session that holds records panics and appends no      *)
(* record whenever the batch passed does not have one sequence for every   *)
(* lane of the newest record that had inputs remaining.                    *)
C7_LaneMismatchPanics ==
    (TimeStepCalled /\ op.before # <<>>
        /\ Len(op.inSeqs) # ContinuingLanes(op.before)) =>
       op.panic /\ memory = op.before

(* C8: Truncate(n) with 0 <= n < MemoryCount leaves the newest n records   *)
(* in their order, Truncate(n) with n >= MemoryCount changes nothing, and  *)
(* MemoryCount is afterwards the smaller of n and what it was.             *)
C8_TruncateKeepsNewest ==
    op.name = "Truncate" =>
       /\ op.n < Len(op.before) =>
             memory = SubSeq(op.before, Len(op.before) - op.n + 1, Len(op.before))
       /\ op.n >= Len(op.before) => memory = op.before
       /\ MemoryCount(memory) = Min(Len(op.before), op.n)

(* A Truncate that discards some records and keeps others. *)
C8_Witness ==
    /\ op.name = "Truncate"
    /\ 0 < op.n
    /\ op.n < Len(op.before)
    /\ Len(memory) = op.n
    /\ memory[1] # op.before[1]

FreshTimeStep(inSeqs) ==
    IF kind = "seqProp" THEN timeStep(<<>>, inSeqs) ELSE timeStepR(<<>>, inSeqs)

(* C9: Truncate(0) leaves MemoryCount 0, and on the session it has emptied *)
(* BackPropagate with any head and tail returns without a panic and leaves *)
(* the maps as they were, and the next TimeStep does what it does on a new *)
(* session: it drops the sequences without inputs, feeds every lane the    *)
(* start state and records the start state on the record it appends.       *)
C9_TruncateZeroResets ==
    /\ (op.name = "Truncate" /\ op.n = 0) => MemoryCount(memory) = 0
    /\ (op.reset /\ op.name = "BackPropagate") =>
          /\ ~op.panic
          /\ memory = <<>>
          /\ g = g0
          /\ rg = rg0
          /\ gradCalls = <<>>
          /\ props = <<>>
    /\ (op.reset /\ TimeStepCalled) =>
          /\ ~op.panic
          /\ memory = FreshTimeStep(op.inSeqs).memory
          /\ op.ret = FreshTimeStep(op.inSeqs).ret
          /\ IF WithInputs(op.inSeqs, 1) = <<>>
             THEN memory = <<>>
             ELSE /\ Len(memory) = 1
                  /\ memory[1].InSeqs = WithInputs(op.inSeqs, 1)
                  /\ memory[1].StartState.id = StartId
                  /\ \A l \in 1..Len(memory[1].InStates) :
                        memory[1].InStates[l].Vector = StartState.Vector

(* The first TimeStep after a Truncate(0) that emptied a session, on a     *)
(* batch that holds a sequence without inputs.                             *)
C9_Witness ==
    /\ op.reset
    /\ TimeStepCalled
    /\ \E l \in 1..Len(op.inSeqs) : Len(op.inSeqs[l].Inputs) = 0
    /\ Len(memory) = 1
    /\ memory[1].StartState.id = StartId

BackPropagateCalled == op.name = "BackPropagate"

OutputUpstream(rec) ==
    [lane \in 1..Len(rec.InSeqs) |->
        costFuncDeriv(rec.InSeqs[lane].Outputs[1], Outputs(rec.Output)[lane])]

ROutputUpstream(rec) ==
    [lane \in 1..Len(rec.InSeqs) |->
        costFuncRDeriv(rec.InSeqs[lane].Outputs[1], Outputs(rec.Output)[lane],
                       ROutputs(rec.Output)[lane])]

(* C10: BackPropagate(head, tail) with head > 0 on a session of M > 0      *)
(* records calls the closures of exactly the records of index at least     *)
(* max(0, M - head - tail), newest first and once each.  A record of index *)
(* at least M - head gets as output upstream the cost derivative of each   *)
(* lane's output against the record's first target; an older record gets   *)
(* no output upstream.  Every record but the newest gets as state upstream *)
(* the incoming-state gradients the next newer record's call left.         *)
C10_BackPropagateWindow ==
    (BackPropagateCalled /\ op.headSize > 0 /\ MemoryCount(memory) > 0) =>
       LET M   == MemoryCount(memory)
           low == Max(0, M - op.headSize - op.tailSize)
       IN  /\ ~op.panic
           /\ Len(gradCalls) = M - low
           /\ \A k \in 1..Len(gradCalls) :
                 LET c   == gradCalls[k]
                     i   == M - k
                     rec == memory[i + 1]
                 IN  /\ c.t = i
                     /\ IF i >= M - op.headSize
                        THEN /\ c.up.Outputs = OutputUpstream(rec)
                             /\ kind = "seqRProp" =>
                                   c.up.ROutputs = ROutputUpstream(rec)
                        ELSE /\ c.up.Outputs = Nil
                             /\ c.up.ROutputs = Nil
                             /\ c.up.States # Nil
                     /\ IF k = 1
                        THEN c.up.States = Nil
                        ELSE c.up.States =
                                injectDiscontinued(rec.InSeqs,
                                                   gradCalls[k - 1].stateGrads,
                                                   StateSize)

(* A replay of three records of which the two newest get output upstream   *)
(* and the oldest only state upstream.                                     *)
C10_Witness ==
    /\ BackPropagateCalled
    /\ op.headSize = 2
    /\ op.tailSize = 1
    /\ Len(memory) = 3
    /\ Len(gradCalls) = 3
    /\ gradCalls[2].up.Outputs # Nil
    /\ gradCalls[3].up.Outputs = Nil
    /\ gradCalls[3].up.States # Nil

(* The batch BatchSeqs is given when it is run on the sequences of inputs  *)
(* a session was first fed.                                                *)
InputsOf(ss) ==
    [l \in 1..Len(ss) |-> [k \in 1..Len(ss[l].Inputs) |-> ss[l].Inputs[k][1]]]

Vectors(vs) == [i \in 1..Len(vs) |-> vs[i].Vector]

(* The newest record was made from the same input vectors and the same     *)
(* incoming states, and holds the same result, as the step of that index   *)
(* of BatchSeqs on the whole batch.                                        *)
NewestRecordAsUnrolled ==
    LET u   == BatchSeqsOf(InputsOf(op.run.first))
        rec == memory[Len(memory)]
    IN  /\ op.run.steps <= Len(u.Steps)
        /\ Vectors(rec.Output.In.Inputs) =
              Vectors(u.Steps[op.run.steps].Outputs.In.Inputs)
        /\ Vectors(rec.Output.In.States) =
              Vectors(u.Steps[op.run.steps].Outputs.In.States)
        /\ rec.Output.Result = u.Steps[op.run.steps].Outputs.Result

TimeStepAppended == TimeStepCalled /\ Len(memory) = Len(op.before) + 1

(* C11 as stated: a session fed its batch one timestep at a time, with     *)
(* Truncate(W) in between for any W, gives the Block at every timestep the *)
(* inputs and states, and gets the outputs, of BatchSeqs on the batch.     *)
C11_SegmentsAsUnrolled_AnyWindow ==
    (TimeStepAppended /\ op.run.faithful) => NewestRecordAsUnrolled

(* C11, amended: the same, for windows W >= 1 (no Truncate(0) in between). *)
C11_SegmentsAsUnrolled ==
    (TimeStepAppended /\ op.run.faithful /\ ~op.run.emptied) =>
       NewestRecordAsUnrolled

(* The third timestep of a batch of two lanes, the first of which has      *)
(* ended, on a session that has been truncated but never emptied.          *)
C11_Witness ==
    /\ TimeStepAppended
    /\ op.run.faithful
    /\ ~op.run.emptied
    /\ op.run.steps = 3
    /\ Len(op.run.first) = 2
    /\ Len(memory) < 3
    /\ Len(memory[Len(memory)].InSeqs) = 1

----------------------------------------------------------------------------
(* The session against the full backward replay.                           *)

(* The memory of a session that was fed the samples ss to their end, the   *)
(* batch each TimeStep returned being passed to the next.                  *)
RECURSIVE feedAll(_, _)
feedNext(mem, r) ==
    IF Len(r.memory) = Len(mem) THEN mem ELSE feedAll(r.memory, r.ret)

feedAll(mem, ss) == feedNext(mem, timeStep(mem, ss))

SessionOn(b) == feedAll(<<>>, [l \in 1..Len(b) |-> SampleFor(b[l])])

(* The vector the Block's gradient is handed for an upstream: the lanes'   *)
(* output gradients and state gradients, nil read as zero.                 *)
PackedUpstream(out, up) == joinUpstream(out, up.States, up.Outputs).vec

(* The calls of BackPropagate(head, 0) on the memory truncated to its      *)
(* newest window records are the newest calls of Gradient, upstream for    *)
(* upstream.                                                               *)
HeadAsGradient(mem, head, window) ==
    LET short == truncate(mem, window)
        back  == backPropagate(short, sessionMap(TRUE), head, 0).calls
    IN  /\ Len(back) = head
        /\ \A k \in 1..head :
              /\ back[k].up.Outputs = gradCalls[k].up.Outputs
              /\ PackedUpstream(short[Len(short) - k + 1].Output, back[k].up) =
                    PackedUpstream(res.Steps[gradCalls[k].t + 1].Outputs,
                                   gradCalls[k].up)
              /\ back[k].up.States # Nil => back[k].up.States = gradCalls[k].up.States

CostGradientDone == pc = "done" /\ upstream = costUpstream(seqs, res)

(* C12: BackPropagate with head H and tail 0, on a session fed the whole   *)
(* batch and truncated to no fewer than H records, hands the Block for     *)
(* each of the last H timesteps the output upstream and the state upstream *)
(* that Gradient hands it when its upstream is the cost derivative; the    *)
(* state upstream of a lane that ended within those timesteps is zero.     *)
C12_HeadMatchesFullGradient ==
    CostGradientDone =>
       \A head \in 1..MaxHead, window \in 1..MaxLen :
          (head <= window /\ head <= Len(res.Steps)) =>
             HeadAsGradient(SessionOn(seqs), head, window)

(* Gradient returned for the cost derivative on two lanes, the first of    *)
(* which ended a step before the second: its zero state upstream is fed to *)
(* the step before the last.                                               *)
C12_Witness ==
    /\ CostGradientDone
    /\ Len(seqs) = 2
    /\ Len(seqs[1]) = 2
    /\ Len(seqs[2]) = 3
    /\ Len(gradCalls) = 3
    /\ gradCalls[2].up.States[1] = Zero(StateSize)
    /\ gradCalls[2].up.States[2] # Zero(StateSize)
    /\ HeadAsGradient(SessionOn(seqs), 2, 2)

----------------------------------------------------------------------------
(* Properties of Bidirectional.                                            *)

BidirRan == pc \in {"joined", "joinedR", "gradient", "rgradient"}

BidirRanR == pc \in {"joinedR", "rgradient"}

(* The index, counted from one, of the entry that time t mirrors in a      *)
(* sequence of n entries: length - 1 - t, counted from zero.               *)
Mirror(n, time) == (n - 1 - time) + 1

(* C13: BatchSeqs and BatchSeqsR call Forward on the batch as given, then  *)
(* Backward on the batch with every sequence reversed in time, then        *)
(* Output; the caller's sequences are afterwards as they were; the vector  *)
(* fed to Output for a lane at time t is Forward's output at t followed by *)
(* Backward's output at index length-1-t, and in BatchSeqsR its R vector   *)
(* is joined from the R outputs in the same way.                           *)
C13_JoinedForwardThenMirroredBackward ==
    BidirRan =>
       /\ [i \in 1..Len(calls) |-> calls[i].fn] = <<"Forward", "Backward", "Output">>
       /\ \A l \in 1..Len(seqs) : \A k \in 1..Len(seqs[l]) : seqs[l][k] = InputVar(l, k)
       /\ calls[1].in = seqs
       /\ Len(calls[2].in) = Len(seqs)
       /\ Len(calls[3].in) = Len(seqs)
       /\ \A l \in 1..Len(seqs) :
             LET n == Len(seqs[l])
             IN  /\ Len(calls[2].in[l]) = n
                 /\ Len(calls[3].in[l]) = n
                 /\ \A time \in 0..n - 1 :
                       /\ calls[2].in[l][time + 1] = seqs[l][Mirror(n, time)]
                       /\ calls[3].in[l][time + 1].Vector =
                             res.ForwardOut.Outputs[l][time + 1]
                                \o res.BackwardOut.Outputs[l][Mirror(n, time)]
                       /\ BidirRanR =>
                             calls[3].in[l][time + 1].ROutputVec =
                                res.ForwardOut.ROutputs[l][time + 1]
                                   \o res.BackwardOut.ROutputs[l][Mirror(n, time)]

(* BatchSeqsR has run on a lane of three inputs and a lane of one, with a  *)
(* Forward of width one and a Backward of width two.                       *)
C13_Witness ==
    /\ pc = "joinedR"
    /\ Len(seqs) = 2
    /\ Len(seqs[1]) = 3
    /\ Len(seqs[2]) = 1
    /\ funcs.Forward.width = 1
    /\ funcs.Backward.width = 2
    /\ calls[2].in[1][1] = InputVar(1, 3)
    /\ Len(calls[3].in[1][1].Vector) = 3
    /\ res.BackwardOut.Outputs[1][1] # res.BackwardOut.Outputs[1][3]

BidirGradientCalled == pc \in {"gradient", "rgradient"}

(* The width of the entries of the first forward output sequence that is   *)
(* not empty; zero when all are empty.                                     *)
ForwardWidth ==
    LET outs     == res.ForwardOut.Outputs
        nonEmpty == {l \in 1..Len(outs) : Len(outs[l]) > 0}
    IN  IF nonEmpty = {} THEN 0
        ELSE Len(outs[CHOOSE l \in nonEmpty : \A m \in nonEmpty : l <= m][1])

(* The two parts of joined gradient j are the upstreams that Forward got   *)
(* at (l, time) and Backward at the mirrored index.                        *)
SplitAt(j, forw, back, l, time) ==
    /\ forw[l][time + 1] = SubSeq(j, 1, ForwardWidth)
    /\ back[l][Mirror(Len(res.Joined[l]), time)] = SubSeq(j, ForwardWidth + 1, Len(j))

(* C14: Gradient and RGradient call Output's gradient, then Forward's,     *)
(* then Backward's, once each; the gradient Output left for the joined     *)
(* vector of (lane, t) is split at the forward sub-output width (that of   *)
(* the first forward output sequence that is not empty): the first part is *)
(* Forward's upstream at (lane, t), the rest is Backward's upstream at     *)
(* (lane, length-1-t); RGradient splits the R gradient in the same way.    *)
C14_GradientSplitAtForwardWidth ==
    BidirGradientCalled =>
       /\ [i \in 1..Len(gradCalls) |-> gradCalls[i].fn] = <<"Output", "Forward", "Backward">>
       /\ gradCalls[1].up = upstream
       /\ pc = "rgradient" => gradCalls[1].upR = upstreamR
       /\ \A i \in 2..3 : Len(gradCalls[i].up) = Len(res.Joined)
       /\ \A l \in 1..Len(res.Joined) :
             /\ \A i \in 2..3 : Len(gradCalls[i].up[l]) = Len(res.Joined[l])
             /\ \A time \in 0..Len(res.Joined[l]) - 1 :
                   /\ SplitAt(gradCalls[1].g[JoinedId(l, time)],
                              gradCalls[2].up, gradCalls[3].up, l, time)
                   /\ pc = "rgradient" =>
                         SplitAt(gradCalls[1].rg[JoinedId(l, time)],
                                 gradCalls[2].upR, gradCalls[3].upR, l, time)

(* RGradient returned for a batch whose first lane is empty and whose      *)
(* second has two inputs, Forward of width one and Backward of width two:  *)
(* the joined gradient of three entries was split after the first.         *)
C14_Witness ==
    /\ pc = "rgradient"
    /\ Len(seqs) = 2
    /\ Len(seqs[1]) = 0
    /\ Len(seqs[2]) = 2
    /\ funcs.Forward.width = 1
    /\ funcs.Backward.width = 2
    /\ Len(gradCalls[1].g[JoinedId(2, 0)]) = 3
    /\ Len(gradCalls[2].up[2][1]) = 1
    /\ Len(gradCalls[3].upR[2][2]) = 2
    /\ gradCalls[3].up[2][1] # gradCalls[3].up[2][2]
    /\ JoinedId(2, 0) \notin DOMAIN g

----------------------------------------------------------------------------
(* Properties of Parameters and Serialize.                                 *)

Called(fn) == ret # Nil /\ ret.fn = fn

Delegates == {funcs.Forward, funcs.Backward, funcs.Output}

(* C15: Bidirectional.Serialize returns an error and no data when one of   *)
(* Forward, Backward and Output is no Serializer, and so does              *)
(* BlockSeqFunc.Serialize when its Block is none; when all are, data is    *)
(* returned without an error.                                              *)
C15_SerializeFailsWithoutData ==
    /\ Called("Bidirectional.Serialize") =>
          IF \E x \in Delegates : ~x.serializer
          THEN ret.err # Nil /\ ret.data = Nil
          ELSE ret.err = Nil /\ Len(ret.data) = 3
    /\ Called("BlockSeqFunc.Serialize") =>
          IF ~funcs.Block.serializer
          THEN ret.err # Nil /\ ret.data = Nil
          ELSE ret.err = Nil /\ ret.data # Nil

(* Serialize failed on a Bidirectional whose Forward is a Serializer and   *)
(* whose Backward is none.                                                 *)
C15_Witness ==
    /\ Called("Bidirectional.Serialize")
    /\ funcs.Forward.serializer
    /\ ~funcs.Backward.serializer
    /\ funcs.Output.serializer
    /\ ret.err # Nil
    /\ ret.data = Nil

(* C16 as stated: Parameters on a Bidirectional or a BlockSeqFunc with a   *)
(* delegate that is no Learner fails.                                      *)
C16_ParametersFailsWithoutLearner ==
    /\ (Called("Bidirectional.Parameters") /\ \E x \in Delegates : ~x.learner) =>
          ret.err # Nil
    /\ (Called("BlockSeqFunc.Parameters") /\ ~funcs.Block.learner) => ret.err # Nil

LearnerParameters(x) == IF x.learner THEN << <<"W", 0, x.index>> >> ELSE <<>>

(* C16, amended: Parameters never fails; Bidirectional.Parameters returns  *)
(* the parameters of those of Forward, Backward and Output that are        *)
(* Learners, in that order, and leaves the others out; and                 *)
(* BlockSeqFunc.Parameters returns nil when its Block is no Learner.       *)
C16_ParametersSkipsNonLearners ==
    /\ Called("Bidirectional.Parameters") =>
          /\ ret.err = Nil
          /\ ret.data = LearnerParameters(funcs.Forward)
                           \o LearnerParameters(funcs.Backward)
                           \o LearnerParameters(funcs.Output)
    /\ Called("BlockSeqFunc.Parameters") =>
          /\ ret.err = Nil
          /\ ret.data = LearnerParameters(funcs.Block)

(* Parameters returned the parameters of Forward and Output for a          *)
(* Bidirectional whose Backward is no Learner.                             *)
C16_Witness ==
    /\ Called("Bidirectional.Parameters")
    /\ funcs.Forward.learner
    /\ ~funcs.Backward.learner
    /\ funcs.Output.learner
    /\ Len(ret.data) = 2
    /\ ret.err = Nil

----------------------------------------------------------------------------
(* Properties of the Block's gradient.                                     *)

BlockGradientCalled == pc \in {"blockDone", "blockPanic", "blockDoneR", "blockPanicR"}

(* The vectors of a half that was passed all have the width wanted. *)
WidthsAre(half, width) == \A i \in 1..Len(half) : Len(half[i]) = width

(* The half as the Block reads it: zero vectors where it is nil. *)
OrZero(half, n, width) == IF half = Nil THEN [i \in 1..n |-> Zero(width)] ELSE half

(* Lane after lane, the output gradient followed by the state gradient. *)
PackedLanes(outputs, states, n, outSize) ==
    Flatten([i \in 1..n |-> OrZero(outputs, n, outSize)[i]
                              \o OrZero(states, n, StateSize)[i]])

(* C17: of States and Outputs in an upstream passed to the Block, one may  *)
(* be nil and is then read as zero: Gradient and RGradient pack, lane      *)
(* after lane, the output gradient followed by the state gradient, with    *)
(* zeros for the half that is nil, and pass that on; they panic, leaving   *)
(* the maps alone, when a vector that was passed has the wrong width.      *)
C17_NilHalfIsZero ==
    BlockGradientCalled =>
       LET n       == res.LaneCount
           outSize == Len(Outputs(res)[1])
           isR     == pc \in {"blockDoneR", "blockPanicR"}
           widthsOk == /\ WidthsAre(upstream.Outputs, outSize)
                       /\ WidthsAre(upstream.States, StateSize)
                       /\ isR => /\ WidthsAre(upstream.ROutputs, outSize)
                                 /\ WidthsAre(upstream.RStates, StateSize)
           packed  == PackedLanes(upstream.Outputs, upstream.States, n, outSize)
           packedR == PackedLanes(upstream.ROutputs, upstream.RStates, n, outSize)
       IN  /\ ~widthsOk => pc \in {"blockPanic", "blockPanicR"} /\ g = g0 /\ rg = rg0
           /\ (widthsOk /\ (upstream.Outputs # Nil \/ upstream.States # Nil)) =>
                 /\ pc \in {"blockDone", "blockDoneR"}
                 /\ gradCalls[1].vec = packed
                 /\ g = propagateResult(res, packed, g0, 1)
                 /\ isR => /\ gradCalls[2].vec = packedR
                           /\ rg = propagateRResult(res, packed, packedR, rg0, 1)

(* Gradient returned for two lanes and an upstream whose States are nil:   *)
(* the packed upstream holds the output gradients and zeros.               *)
C17_Witness ==
    /\ pc = "blockDone"
    /\ res.LaneCount = 2
    /\ upstream.States = Nil
    /\ upstream.Outputs # Nil
    /\ gradCalls[1].vec = upstream.Outputs[1] \o Zero(StateSize)
                             \o upstream.Outputs[2] \o Zero(StateSize)
    /\ upstream.Outputs[1] # Zero(1)
    /\ g # g0

(* RGradient panicked on an upstream whose Outputs are nil and whose       *)
(* second state gradient is too short.                                     *)
C17_WitnessPanic ==
    /\ pc = "blockPanicR"
    /\ upstream.Outputs = Nil
    /\ Len(upstream.States) = 2
    /\ Len(upstream.States[2]) < StateSize

----------------------------------------------------------------------------
(* Lanes leave and do not come back.                                       *)

(* The lanes of a BlockInput of the unroller, by the lane its input        *)
(* variables were made for.                                                *)
LanesOf(in) == {in.Inputs[i].id[3] : i \in 1..Len(in.Inputs)}

(* How many lanes of a record have input left after the one it consumed. *)
LanesLeft(rec) ==
    Cardinality({j \in 1..Len(rec.InSeqs) : Len(rec.InSeqs[j].Inputs) > 1})

(* C20: in an unrolling the lanes of the Block's input at a step are among *)
(* those of the step before; in a session every record appended to a       *)
(* memory that is not empty has exactly as many lanes as its predecessor   *)
(* has lanes with more than one input left, so that the lane count never   *)
(* grows from a record to the next.                                        *)
C20_LanesOnlyLeave ==
    /\ \A k \in 1..Len(calls) - 1 : LanesOf(calls[k + 1]) \subseteq LanesOf(calls[k])
    /\ \A i \in 1..Len(memory) - 1 :
          /\ Len(memory[i + 1].InSeqs) = LanesLeft(memory[i])
          /\ memory[i + 1].Output.LaneCount <= memory[i].Output.LaneCount
    /\ (TimeStepAppended /\ op.before # <<>>) =>
          /\ Len(memory[Len(memory)].InSeqs) = LanesLeft(op.before[Len(op.before)])
          /\ memory[Len(memory)].Output.LaneCount = Len(memory[Len(memory)].InSeqs)

(* A record of one lane was appended after a record of two lanes, one of   *)
(* which had a single input left.                                          *)
C20_Witness ==
    /\ TimeStepAppended
    /\ Len(memory) >= 2
    /\ Len(memory[Len(memory) - 1].InSeqs) = 2
    /\ LanesLeft(memory[Len(memory) - 1]) = 1
    /\ memory[Len(memory)].Output.LaneCount = 1

(* An unrolling whose first lane left after the first step. *)
C20_WitnessUnrolling ==
    /\ Unrolled
    /\ Len(calls) = 3
    /\ LanesOf(calls[1]) = {1, 2}
    /\ LanesOf(calls[2]) = {2}
    /\ LanesOf(calls[3]) = {2}

----------------------------------------------------------------------------
(* The order and the upstreams of the backward replay.                     *)

(* The gradient that the i-th closure call of the replay left for lane l's *)
(* incoming state: what the Block adds to a zero entry of the state        *)
(* variable when it is handed that call's upstream.                        *)
IncomingStateGradient(i, l) ==
    LET tt   == gradCalls[i].t
        zero == [id \in {<<"state", tt, m>> : m \in 1..Len(seqs)} |-> Zero(StateSize)]
    IN  blockGradient(res.Steps[tt + 1].Outputs, gradCalls[i].up, zero).g[<<"state", tt, l>>]

(* C21: Gradient and RGradient call the recorded steps' closures in        *)
(* strictly decreasing order of time, each once; the upstream of step t    *)
(* holds, for each active lane in order, the caller's upstream[l][t] and,  *)
(* as state upstream, the incoming-state gradient that the replay of step  *)
(* t+1 left for the lane, or zeros of state width when the lane was not    *)
(* active at t+1.                                                          *)
C21_ReplayNewestFirst ==
    /\ (GradientCalled \/ RGradientCalled) =>
          \A i \in 1..Len(gradCalls) :
             LET tt     == gradCalls[i].t
                 up     == gradCalls[i].up
                 active == ActiveLanes(seqs, tt)
             IN  /\ tt = Len(res.Steps) - i
                 /\ Len(up.Outputs) = Len(active)
                 /\ Len(up.States) = Len(active)
                 /\ \A p \in 1..Len(active) :
                       /\ up.Outputs[p] = upstream[active[p]][tt + 1]
                       /\ up.States[p] =
                             IF Len(seqs[active[p]]) > tt + 1
                             THEN IncomingStateGradient(i - 1, active[p])
                             ELSE Zero(StateSize)
    /\ Replaying => Len(gradCalls) = Len(res.Steps) - 1 - gt
    /\ Replayed => Len(gradCalls) = Len(res.Steps)

(* RGradient returned after three steps on a lane of one input and a lane  *)
(* of three: the second call, of time 1, got from the first call a state   *)
(* gradient that is not zero.                                              *)
C21_Witness ==
    /\ pc = "doneR"
    /\ Len(seqs) = 2
    /\ Len(seqs[1]) = 1
    /\ Len(seqs[2]) = 3
    /\ [i \in 1..Len(gradCalls) |-> gradCalls[i].t] = <<2, 1, 0>>
    /\ gradCalls[2].up.States = <<IncomingStateGradient(1, 2)>>
    /\ gradCalls[2].up.States[1] # Zero(StateSize)
    /\ gradCalls[3].up.States[1] = Zero(StateSize)

(* The propagations into the shared start state, in the order made. *)
StartProps == SelectSeq(props, LAMBDA p : p.to = res.StartState.id)

(* The lanes of the batch that had at least one timestep, in lane order. *)
StartedLanes == ActiveLanes(seqs, 0)

(* C22: while steps are still being replayed (or the call was refused)     *)
(* nothing is propagated into the start state; once the call has returned  *)
(* there is one propagation per lane that had a timestep, in lane order,   *)
(* carrying the incoming-state gradient that the replay of step 0 left for *)
(* that lane, and none for a lane without timesteps.                       *)
C22_StartStateAfterReplay ==
    /\ (GradientCalled \/ RGradientCalled) /\ ~Replayed => StartProps = <<>>
    /\ Replayed =>
          /\ Len(StartProps) = Len(StartedLanes)
          /\ \A p \in 1..Len(StartedLanes) :
                StartProps[p].up = IncomingStateGradient(Len(gradCalls), StartedLanes[p])

(* Gradient returned on a batch whose first lane has no input and whose    *)
(* second has two: one propagation into the start state, with a gradient   *)
(* that is not zero, after two closure calls.                              *)
C22_Witness ==
    /\ pc = "done"
    /\ Len(seqs) = 2
    /\ Len(seqs[1]) = 0
    /\ Len(seqs[2]) = 2
    /\ Len(gradCalls) = 2
    /\ Len(StartProps) = 1
    /\ StartProps[1].up # Zero(StateSize)

(* Both lanes had a timestep: two propagations, the first lane's first. *)
C22_WitnessTwoLanes ==
    /\ pc = "done"
    /\ Len(seqs) = 2
    /\ Len(seqs[1]) = 1
    /\ Len(seqs[2]) = 3
    /\ Len(StartProps) = 2
    /\ StartProps[1].up # StartProps[2].up

----------------------------------------------------------------------------
(* The R forms against the ordinary forms on the same batch.               *)

(* Gradient's loop over the steps of r from time tt down, as a function:   *)
(* the closure calls made, the state upstreams and the map it ends with.   *)
RECURSIVE GradientFrom(_, _, _)
GradientFrom(r, tt, acc) ==
    IF tt < 0 THEN acc
    ELSE LET step  == r.Steps[tt + 1]
             lanes == loopUsedLanes(step.LaneToOut)
             ins   == insertPass(lanes, step, tt, acc.sUp,
                                 [up |-> emptyUpstream, g |-> acc.g])
             back  == blockGradient(step.Outputs, ins.up, ins.g)
             del   == deletePass(lanes, step,
                                 [sUp |-> acc.sUp, g |-> back.g, props |-> <<>>])
         IN  GradientFrom(r, tt - 1,
                          [sUp   |-> del.sUp,
                           g     |-> del.g,
                           calls |-> Append(acc.calls,
                                            [t |-> tt, up |-> ins.up,
                                             keys |-> DOMAIN ins.g])])

(* BatchSeqs on the batch of the run, and its Gradient on the caller's     *)
(* upstream and map.                                                       *)
OrdinaryOutput == BatchSeqsOf(seqs)

OrdinaryGradient ==
    GradientFrom(OrdinaryOutput, Len(OrdinaryOutput.Steps) - 1,
                 [sUp |-> [l \in 1..Len(seqs) |-> Nil], g |-> g0, calls |-> <<>>])

RUnrollRan == pc \in {"unrolledR", "RGradient", "doneR", "panicR"}

SameNil(u, v) ==
    /\ Len(u) = Len(v)
    /\ \A l \in 1..Len(u) : (u[l] = Nil) <=> (v[l] = Nil)

(* The steps of the R output r against those of the ordinary output ord. *)
SameSteps(r, ord) ==
    /\ Len(r.Steps) <= Len(ord.Steps)
    /\ \A k \in 1..Len(r.Steps) :
          /\ r.Steps[k].LaneToOut = ord.Steps[k].LaneToOut
          /\ r.Steps[k].Inputs = ord.Steps[k].Inputs
          /\ \A l \in DOMAIN r.Steps[k].LaneToOut :
                /\ r.Steps[k].InStateVars[l].id = ord.Steps[k].InStateVars[l].id
                /\ r.Steps[k].InputVars[l].id = ord.Steps[k].InputVars[l].id

(* The closure calls of the R replay against those of the ordinary one. *)
SameCalls(own, ord, steps) ==
    /\ Len(own) <= Len(ord)
    /\ \A i \in 1..Len(own) :
          /\ own[i].t = ord[i].t
          /\ own[i].t = steps - i
          /\ own[i].keys = ord[i].keys
          /\ own[i].rkeys = ord[i].keys
          /\ Len(own[i].up.Outputs) = Len(ord[i].up.Outputs)
          /\ Len(own[i].up.States) = Len(ord[i].up.States)
          /\ Len(own[i].up.ROutputs) = Len(own[i].up.Outputs)
          /\ Len(own[i].up.RStates) = Len(own[i].up.States)

(* The R replay against the ordinary replay og. *)
SameReplay(og) ==
    /\ SameCalls(gradCalls, og.calls, Len(res.Steps))
    /\ SameNil(stateRUpstreams, stateUpstreams)
    /\ pc = "doneR" =>
          /\ Len(gradCalls) = Len(res.Steps)
          /\ SameNil(stateUpstreams, og.sUp)
          /\ DOMAIN g = DOMAIN og.g
          /\ DOMAIN rg = DOMAIN og.g

(* C23: BatchSeqsR records the steps BatchSeqs records on the same batch   *)
(* (same lanes, same lane-to-position maps, same variables), RGradient     *)
(* calls the R closure once per step in the order Gradient calls the       *)
(* ordinary one, with upstreams of the same shape whose R halves are as    *)
(* long as the ordinary ones, inserts the same keys in both maps before    *)
(* each call and leaves both maps with the keys Gradient leaves; a lane    *)
(* has an R state upstream exactly when it has an ordinary one.            *)
C23_RFormKeepsBookkeeping ==
    /\ pc \in {"BatchSeqsR", "unrolledR", "RGradient", "doneR", "panicR"} =>
          SameSteps(res, OrdinaryOutput)
    /\ RUnrollRan => Len(res.Steps) = MaxSeqLen(seqs)
    /\ pc \in {"RGradient", "doneR"} => SameReplay(OrdinaryGradient)

(* RGradient returned on a lane of one input and a lane of three whose     *)
(* inputs are not constant: three closure calls, the first with the input  *)
(* variable of the long lane among the inserted keys of both maps.         *)
C23_Witness ==
    /\ pc = "doneR"
    /\ Len(seqs) = 2
    /\ Len(seqs[1]) = 1
    /\ Len(seqs[2]) = 3
    /\ Len(gradCalls) = 3
    /\ <<"input", 2, 2>> \in gradCalls[1].keys \cap gradCalls[1].rkeys
    /\ <<"state", 0, 1>> \in gradCalls[3].rkeys
    /\ Len(gradCalls[3].up.RStates) = 2

(* A lane without input has neither state upstream when RGradient returns. *)
C23_WitnessEmptyLane ==
    /\ pc = "doneR"
    /\ Len(seqs) = 2
    /\ Len(seqs[1]) = 0
    /\ Len(seqs[2]) = 2
    /\ stateUpstreams[1] = Nil
    /\ stateRUpstreams[1] = Nil
    /\ stateRUpstreams[2] # Nil

----------------------------------------------------------------------------
(* The number of records over the session's operations.                    *)

(* The batch a TimeStep works on: that of the call, without its sequences  *)
(* that have no input when the session holds no record.                    *)
EffectiveBatch == IF op.before = <<>> THEN WithInputs(op.inSeqs, 1) ELSE op.inSeqs

(* C24: a TimeStep that returns leaves one record more than it found when  *)
(* its batch, without the empty sequences on an empty session, is not      *)
(* empty, and the records it found when it is (a TimeStep that panics      *)
(* appends nothing); BackPropagate leaves the records as they were; the    *)
(* number of records goes down only in Truncate, and a session that held   *)
(* records holds none only after Truncate(0).                              *)
C24_MemoryCountSteps ==
    /\ (TimeStepCalled /\ ~op.panic) =>
          /\ MemoryCount(memory)
                = MemoryCount(op.before) + (IF EffectiveBatch # <<>> THEN 1 ELSE 0)
          /\ SubSeq(memory, 1, Len(op.before)) = op.before
    /\ (TimeStepCalled /\ op.panic) => memory = op.before
    /\ BackPropagateCalled => memory = op.before
    /\ MemoryCount(memory) < MemoryCount(op.before) => op.name = "Truncate"
    /\ (op.before # <<>> /\ memory = <<>>) => (op.name = "Truncate" /\ op.n = 0)

(* The second TimeStep of a session: two records where there was one. *)
C24_Witness ==
    /\ TimeStepCalled
    /\ ~op.panic
    /\ MemoryCount(op.before) = 1
    /\ MemoryCount(memory) = 2

(* A TimeStep with an empty batch on a session of two records. *)
C24_WitnessEmptyBatch ==
    /\ TimeStepCalled
    /\ op.inSeqs = <<>>
    /\ MemoryCount(op.before) = 2
    /\ MemoryCount(memory) = 2

(* A session of two records emptied by Truncate(0). *)
C24_WitnessEmptied ==
    /\ op.name = "Truncate"
    /\ op.n = 0
    /\ MemoryCount(op.before) = 2
    /\ MemoryCount(memory) = 0

----------------------------------------------------------------------------
(* The start state in the session's backward replay.                       *)

(* The propagations into the start state that the call made, in order. *)
SessionStartProps == SelectSeq(props, LAMBDA p : p.to = StartId)

(* A BackPropagate that replays records: neither a head of 0 nor a session *)
(* without records.                                                        *)
WindowReplayed ==
    BackPropagateCalled /\ op.headSize > 0 /\ MemoryCount(memory) > 0

WindowLow == Max(0, MemoryCount(memory) - op.headSize - op.tailSize)

(* The window reaches the oldest record kept, and that record has the      *)
(* start state it was fed recorded on it.                                  *)
ReachesStartState ==
    /\ WindowReplayed
    /\ WindowLow = 0
    /\ memory[1].StartState # NilVar

(* The state ids among a set of keys. *)
StateKeys(keys) == {id \in keys : id[1] = "state"}

(* C25: BackPropagate propagates into the start state exactly when it      *)
(* replays a window whose lowest record is the oldest one kept and that    *)
(* record has a recorded start state.  Then every record of the window has *)
(* been replayed and each lane of the oldest record gives one propagation, *)
(* of the incoming-state gradient its replay left for the lane.  In every  *)
(* other case nothing is propagated into the start state, the start        *)
(* state's entry is as the caller passed it, and the lowest record of the  *)
(* window gets no temporaries for its incoming states: state gradients go  *)
(* to the next older record of the window only.                            *)
C25_StartStateOnlyFromFirstRecord ==
    BackPropagateCalled =>
       /\ SessionStartProps # <<>> <=> ReachesStartState
       /\ ReachesStartState =>
             LET last == gradCalls[Len(gradCalls)]
             IN  /\ Len(gradCalls) = MemoryCount(memory)
                 /\ last.t = 0
                 /\ Len(SessionStartProps) = Len(memory[1].InSeqs)
                 /\ \A k \in 1..Len(SessionStartProps) :
                       SessionStartProps[k].up = last.stateGrads[k]
       /\ ~ReachesStartState =>
             /\ props = <<>>
             /\ StartId \in DOMAIN g0 => g[StartId] = g0[StartId]
             /\ WindowReplayed =>
                   LET last == gradCalls[Len(gradCalls)]
                   IN  /\ last.t = WindowLow
                       /\ last.stateGrads = <<>>
                       /\ StateKeys(last.keys) = {}
                       /\ \A k \in 1..Len(gradCalls) - 1 :
                             /\ gradCalls[k].stateGrads # <<>>
                             /\ gradCalls[k].t > WindowLow

(* A replay of both records of a session whose first record has two lanes: *)
(* two propagations into the start state, of gradients that are not zero.  *)
C25_Witness ==
    /\ ReachesStartState
    /\ MemoryCount(memory) = 2
    /\ Len(gradCalls) = 2
    /\ Len(SessionStartProps) = 2
    /\ SessionStartProps[1].up # Zero(StateSize)

(* A window that stops above the oldest record: two calls, no start state. *)
C25_WitnessShortWindow ==
    /\ WindowReplayed
    /\ MemoryCount(memory) = 3
    /\ WindowLow = 1
    /\ Len(gradCalls) = 2
    /\ gradCalls[2].up.States # Nil
    /\ props = <<>>

----------------------------------------------------------------------------
(* The state upstream between the records of a session.                    *)

(* The number of sequences among the first n of ss that have more than one *)
(* input: the place the n-th has among the lanes that go on.               *)
ContinuingUpTo(ss, n) == Len(WithInputs(SubSeq(ss, 1, n), 2))

(* C26: the state upstream that the replay of a record hands to the next   *)
(* older record has one entry per lane of the older record, in lane order: *)
(* the lane that is the k-th of the older record to have more than one     *)
(* input gets the gradient of the k-th incoming state of the newer record, *)
(* a lane that had one input gets zeros of state width; so does the R      *)
(* state upstream of a seqRProp.  The replay does not panic.               *)
C26_StateUpstreamPerLane ==
    WindowReplayed =>
       /\ ~op.panic
       /\ \A k \in 2..Len(gradCalls) :
             LET newer == gradCalls[k - 1]
                 older == gradCalls[k]
                 ss    == memory[older.t + 1].InSeqs
             IN  /\ older.t = newer.t - 1
                 /\ Len(newer.stateGrads) = Len(memory[newer.t + 1].InSeqs)
                 /\ Len(newer.stateGrads) = ContinuingUpTo(ss, Len(ss))
                 /\ Len(older.up.States) = Len(ss)
                 /\ kind = "seqRProp" => Len(older.up.RStates) = Len(ss)
                 /\ \A lane \in 1..Len(ss) :
                       IF Len(ss[lane].Inputs) > 1
                       THEN older.up.States[lane]
                              = newer.stateGrads[ContinuingUpTo(ss, lane)]
                       ELSE /\ older.up.States[lane] = Zero(StateSize)
                            /\ kind = "seqRProp" =>
                                  older.up.RStates[lane] = Zero(StateSize)

(* The older record has two lanes of which the first ended there: its      *)
(* state upstream is zeros for the first lane and, for the second, the one *)
(* gradient the newer record left, which is not zero.                      *)
C26_Witness ==
    /\ WindowReplayed
    /\ Len(gradCalls) >= 2
    /\ Len(memory[gradCalls[2].t + 1].InSeqs) = 2
    /\ Len(memory[gradCalls[2].t + 1].InSeqs[1].Inputs) = 1
    /\ Len(gradCalls[1].stateGrads) = 1
    /\ gradCalls[2].up.States = <<Zero(StateSize), gradCalls[1].stateGrads[1]>>
    /\ gradCalls[1].stateGrads[1] # Zero(StateSize)

----------------------------------------------------------------------------
(* The temporaries of the session's backward replay.                       *)

(* The ids of the incoming-state variables of a record. *)
InStateIds(rec) == {rec.InStates[k].id : k \in 1..Len(rec.InStates)}

(* The keys a closure call found beside those the caller passed must be    *)
(* the incoming states of the call's own record, and only when their       *)
(* gradients are collected.                                                *)
OwnTemporaries(c, keys, before) ==
    keys \ before = IF c.stateGrads # <<>> THEN InStateIds(memory[c.t + 1]) ELSE {}

(* C27: when a closure is called during BackPropagate the gradient map     *)
(* holds, beside the caller's keys, the incoming-state variables of that   *)
(* record alone (those of the records replayed before are gone), likewise  *)
(* the R-gradient map of a seqRProp; when the call returns both maps have  *)
(* the keys they had before, for every head, tail and memory.              *)
C27_TemporariesDrained ==
    BackPropagateCalled =>
       /\ ~op.panic
       /\ DOMAIN g = DOMAIN g0
       /\ DOMAIN rg = DOMAIN rg0
       /\ \A k \in 1..Len(gradCalls) :
             /\ OwnTemporaries(gradCalls[k], gradCalls[k].keys, DOMAIN g0)
             /\ DOMAIN g0 \subseteq gradCalls[k].keys
             /\ kind = "seqRProp" =>
                   /\ OwnTemporaries(gradCalls[k], gradCalls[k].rkeys, DOMAIN rg0)
                   /\ DOMAIN rg0 \subseteq gradCalls[k].rkeys

(* A seqRProp replay of two records with two lanes each down to the start  *)
(* state: each call found its own two state variables in both maps, and    *)
(* the maps end with the caller's keys.                                    *)
C27_Witness ==
    /\ ReachesStartState
    /\ kind = "seqRProp"
    /\ Len(gradCalls) = 2
    /\ Cardinality(StateKeys(gradCalls[1].keys)) = 2
    /\ Cardinality(StateKeys(gradCalls[2].rkeys)) = 2
    /\ StateKeys(gradCalls[1].keys) \cap StateKeys(gradCalls[2].keys) = {}
    /\ StartId \in DOMAIN g0
    /\ DOMAIN g = DOMAIN g0

----------------------------------------------------------------------------
(* The joined variables in Bidirectional's gradient maps.                  *)

(* The ids of the joined variables of every lane and time. *)
JoinedKeys ==
    UNION {{res.Joined[l][k].id : k \in 1..Len(res.Joined[l])} : l \in 1..Len(res.Joined)}

(* C28: when Gradient or RGradient calls Output's gradient the gradient    *)
(* map (and in RGradient the R-gradient map) has an entry for every joined *)
(* variable of every lane and time, as wide as the joined vector; when it  *)
(* calls Forward's and Backward's gradient the maps have none of them, and *)
(* none when the call returns: the maps end with the caller's keys.        *)
C28_JoinedEntriesAroundOutput ==
    BidirGradientCalled =>
       /\ JoinedKeys \subseteq gradCalls[1].keys
       /\ \A l \in 1..Len(res.Joined) : \A k \in 1..Len(res.Joined[l]) :
             Len(gradCalls[1].g[res.Joined[l][k].id]) = Len(res.Joined[l][k].Vector)
       /\ gradCalls[2].keys \cap JoinedKeys = {}
       /\ gradCalls[3].keys \cap JoinedKeys = {}
       /\ DOMAIN g \cap JoinedKeys = {}
       /\ DOMAIN g = DOMAIN g0
       /\ pc = "rgradient" =>
             /\ JoinedKeys \subseteq DOMAIN gradCalls[1].rg
             /\ \A l \in 1..Len(res.Joined) : \A k \in 1..Len(res.Joined[l]) :
                   Len(gradCalls[1].rg[res.Joined[l][k].id])
                      = Len(res.Joined[l][k].Vector)
             /\ DOMAIN gradCalls[2].rg \cap JoinedKeys = {}
             /\ DOMAIN gradCalls[3].rg \cap JoinedKeys = {}
             /\ DOMAIN rg \cap JoinedKeys = {}
             /\ DOMAIN rg = DOMAIN rg0

(* RGradient returned for lanes of two inputs and of one, whose inputs are *)
(* in the caller's maps: Output's gradient found the three joined          *)
(* variables in both maps, and the maps end with the caller's three keys   *)
(* for the inputs beside the parameter's.                                  *)
C28_Witness ==
    /\ pc = "rgradient"
    /\ Len(seqs) = 2
    /\ Len(seqs[1]) = 2
    /\ Len(seqs[2]) = 1
    /\ Cardinality(JoinedKeys) = 3
    /\ JoinedKeys \subseteq gradCalls[1].keys \cap DOMAIN gradCalls[1].rg
    /\ Cardinality(DOMAIN g0) = 4
    /\ DOMAIN rg = DOMAIN g0
    /\ g # g0

----------------------------------------------------------------------------
(* BackPropagate down to a record whose predecessor was truncated away.    *)

(* The oldest record kept is not the first of its history (the records of  *)
(* a history are numbered from 0), and the window of the call reaches it.  *)
ReachesTruncatedRecord ==
    /\ WindowReplayed
    /\ memory[1].serial > 0
    /\ WindowLow = 0

(* C29 as claimed: such a call is refused with a panic. *)
C29_TruncatedWindowPanics == ReachesTruncatedRecord => op.panic

(* C29: BackPropagate with a window that reaches an oldest record whose    *)
(* predecessor Truncate has discarded returns without a panic: the record  *)
(* has no start state, every record kept is replayed, the oldest without   *)
(* temporaries for its incoming states, and nothing is propagated into the *)
(* start state; the map ends with the caller's keys.                       *)
C29_TruncatedWindowProceeds ==
    ReachesTruncatedRecord =>
       /\ ~op.panic
       /\ memory[1].StartState = NilVar
       /\ Len(gradCalls) = MemoryCount(memory)
       /\ gradCalls[Len(gradCalls)].t = 0
       /\ gradCalls[Len(gradCalls)].stateGrads = <<>>
       /\ StateKeys(gradCalls[Len(gradCalls)].keys) = {}
       /\ props = <<>>
       /\ DOMAIN g = DOMAIN g0
       /\ StartId \in DOMAIN g0 => g[StartId] = g0[StartId]

(* Three records truncated to two and replayed with a head of two: two     *)
(* closure calls, the second with the state upstream of the first, and the *)
(* parameter's gradient changed.                                           *)
C29_Witness ==
    /\ ReachesTruncatedRecord
    /\ memory[1].serial = 1
    /\ MemoryCount(memory) = 2
    /\ op.headSize = 2
    /\ Len(gradCalls) = 2
    /\ gradCalls[2].up.States # Nil
    /\ g # g0

----------------------------------------------------------------------------
(* The lane-to-position map of a step.                                     *)

(* m maps the lanes of the increasing list active one to one onto the      *)
(* positions of a batch of that many lanes, lower lanes to lower           *)
(* positions.  Positions are counted from 1 here, from 0 in the source.    *)
OrderPreservingOnto(m, active) ==
    /\ DOMAIN m = {active[p] : p \in 1..Len(active)}
    /\ {m[l] : l \in DOMAIN m} = 1..Len(active)
    /\ \A l1, l2 \in DOMAIN m : l1 < l2 => m[l1] < m[l2]
    /\ \A p \in 1..Len(active) : m[active[p]] = p

(* C30: the LaneToOut of every recorded step maps the lanes active at the  *)
(* step one to one and in order onto the positions of the step's batch,    *)
(* where the Block was given the lane's input and state; loopUsedLanes     *)
(* visits exactly those lanes, lowest first, and ends; so the entries that *)
(* Gradient and RGradient assemble for a step stand, at the position of a  *)
(* lane, for that lane: the caller's upstream of the lane and the state    *)
(* gradient kept for the lane.                                             *)
C30_LaneToOutOrderPreserving ==
    pc # "idle" =>
       /\ \A k \in 1..Len(res.Steps) :
             LET m      == res.Steps[k].LaneToOut
                 active == ActiveLanes(seqs, k - 1)
             IN  /\ OrderPreservingOnto(m, active)
                 /\ loopUsedLanes(m) = active
                 /\ Len(calls[k].Inputs) = Len(active)
                 /\ \A l \in DOMAIN m :
                       /\ calls[k].Inputs[m[l]].id = <<"input", k - 1, l>>
                       /\ calls[k].States[m[l]].id = <<"state", k - 1, l>>
       /\ \A i \in 1..Len(gradCalls) :
             LET tt == gradCalls[i].t
                 m  == res.Steps[tt + 1].LaneToOut
                 up == gradCalls[i].up
             IN  /\ Len(up.Outputs) = Cardinality(DOMAIN m)
                 /\ Len(up.States) = Cardinality(DOMAIN m)
                 /\ \A l \in DOMAIN m :
                       /\ up.Outputs[m[l]] = upstream[l][tt + 1]
                       /\ up.States[m[l]] =
                             IF i > 1 /\ l \in DOMAIN res.Steps[tt + 2].LaneToOut
                             THEN IncomingStateGradient(i - 1, l)
                             ELSE Zero(StateSize)
                       /\ RGradientCalled => up.ROutputs[m[l]] = upstreamR[l][tt + 1]

(* The first lane has one input and the second three: at the second step   *)
(* lane 2 is at the first position, and the replay of that step took lane  *)
(* 2's upstream, which differs from what lane 1 has there.                 *)
C30_Witness ==
    /\ pc = "done"
    /\ Len(seqs) = 2
    /\ Len(seqs[1]) = 1
    /\ Len(seqs[2]) = 3
    /\ res.Steps[1].LaneToOut = (1 :> 1) @@ (2 :> 2)
    /\ res.Steps[2].LaneToOut = (2 :> 1)
    /\ loopUsedLanes(res.Steps[2].LaneToOut) = <<2>>
    /\ gradCalls[3].up.Outputs = <<upstream[1][1], upstream[2][1]>>
    /\ upstream[1][1] # upstream[2][1]

----------------------------------------------------------------------------
(* The record that carries the start state.                                *)

(* The records of mem that have a start state recorded, by place. *)
WithStartState(mem) == {i \in 1..Len(mem) : mem[i].StartState # NilVar}

(* A Truncate that discarded records and kept others. *)
TruncatedShort ==
    /\ op.name = "Truncate"
    /\ 0 < op.n
    /\ op.n < MemoryCount(op.before)

(* C31: at most one record carries a start state, and only the oldest one  *)
(* kept can.  The records are numbered in the order of their TimeSteps     *)
(* from 0 at the first TimeStep on an empty session, and Truncate discards *)
(* from the oldest, so no record has been discarded since the session was  *)
(* last empty exactly when the oldest record kept has number 0; it carries *)
(* a start state exactly then.  A Truncate(n) with 0 < n < MemoryCount     *)
(* leaves no record with a start state, and so does every call after it    *)
(* until the session has been emptied.                                     *)
C31_StartStateOnFirstRecordOnly ==
    /\ WithStartState(memory) \subseteq {1}
    /\ \A i \in 1..Len(memory) : memory[i].serial = memory[1].serial + i - 1
    /\ memory # <<>> => (memory[1].StartState # NilVar <=> memory[1].serial = 0)
    /\ (TimeStepCalled /\ op.before = <<>> /\ memory # <<>>) =>
          /\ memory[1].serial = 0
          /\ memory[1].StartState.id = StartId
    /\ TruncatedShort =>
          /\ memory[1].serial = op.before[1].serial + MemoryCount(op.before) - op.n
          /\ WithStartState(memory) = {}
    /\ (op.before # <<>> /\ WithStartState(op.before) = {}) =>
          (memory = <<>> \/ WithStartState(memory) = {})

(* Three records of which Truncate(2) discarded the first, the one with    *)
(* the start state: neither record kept has one.                           *)
C31_Witness ==
    /\ TruncatedShort
    /\ op.n = 2
    /\ MemoryCount(op.before) = 3
    /\ WithStartState(op.before) = {1}
    /\ MemoryCount(memory) = 2
    /\ WithStartState(memory) = {}

(* A TimeStep after such a truncation: still no record with a start state. *)
C31_WitnessAppended ==
    /\ TimeStepCalled
    /\ MemoryCount(memory) = 2
    /\ memory[1].serial = 1
    /\ WithStartState(memory) = {}

(* The session was emptied by Truncate(0) and fed again: the new first     *)
(* record has the start state.                                             *)
C31_WitnessRestarted ==
    /\ TimeStepCalled
    /\ op.reset
    /\ MemoryCount(memory) = 1
    /\ WithStartState(memory) = {1}

====
